---- MODULE Spec2Model ----
(***************************************************************************)
(* Verification model of envmon: the polling scheduler (timer.py), the     *)
(* particulate driver (pm25aqi.py), the SCD40 driver (scd40.py), the       *)
(* BMP280 driver (bmp280.py), the Sensor base class (sensors.py) and the   *)
(* equations (equations.py), with the Reading Store the drivers write to.  *)
(*                                                                         *)
(* Times are integers (one unit = one clock quantum); bytes are 0..255.    *)
(* Each part has its own specification (SpecTimer, SpecAQI, SpecSCD,       *)
(* SpecSCDState, SpecBMP, SpecBMPAccess, SpecBMPLoop, SpecReads, SpecBus,  *)
(* SpecEq) over the shared variables; the variables a specification does   *)
(* not use stay at their initial values.                                   *)
(***************************************************************************)
EXTENDS Integers, Sequences, FiniteSets, TLC

VARIABLES
    store,        \* SensorData: the Reading Store shared by the drivers
    lastRead,     \* history: the driver whose read() was invoked last, "none" before the first
    clock,        \* time.perf_counter(): the monotonic clock
    now,          \* Timer._now
    events,       \* Timer._events: sequence of [cb, interval, prev]
    regTime,      \* history: clock reading when each event was registered
    fired,        \* history: indices of the events whose callback the last run() invoked
    firedBefore,  \* history: indices of the events invoked by earlier run() calls
    raised,       \* history: index of the event whose callback raised in the last run(), 0 if none
    prevAtTick,   \* history: each event's _prev when the last run() started
    storeAtTick,  \* history: the Reading Store when the last run() started
    tickInput,    \* history: what the devices returned during the last run()
    timerOp,      \* last Timer operation: "init", "add_event", "run"
    aqiBuffer,    \* AQISensor._buffer (32 bytes)
    aqiErrors,    \* logger.error messages of the last AQISensor.read()
    aqiResults,   \* the tuple unpacked by the last AQISensor.read()
    aqiPrevStore, \* history: the Reading Store before the last AQISensor.read()
    aqiOp,        \* last AQISensor operation: "init", "read"
    scdBuffer,    \* SCD40._buffer (18 bytes)
    scdCache,     \* SCD40._co2, _temperature, _relative_humidity
    scdOp,        \* last SCD40 operation
    scdExc,       \* the exception the last SCD40 operation ended in, "none" if it returned
    scdResult,    \* the value the last SCD40 operation returned
    scdArg,       \* history: the argument the last SCD40 operation was called with
    scdWrites,    \* the byte strings the last SCD40 operation wrote to the bus
    scdReply,     \* history: the bytes the device held ready during the last operation
    scdPrevCache, \* history: scdCache before the last operation
    scdPrevStore, \* history: the Reading Store before the last operation
    scdDevice,    \* the SCD40 device: its measurement state
    scdPrevDevice, \* history: the device's measurement state before the last operation
    bmp,          \* BMP280 driver fields: _mode, _iir_filter, _overscan_temperature,
                  \* _overscan_pressure, _t_standby, _t_fine, and the calibration
                  \* coefficients _temp_calib and _pressure_calib (None until loaded)
    bmpOp,        \* last BMP280 operation and its argument; "new" before __init__ has run
    bmpBus,       \* the bus transactions of the last BMP280 operation, in order
    bmpLogged,    \* logger.error messages of the last BMP280 operation
    bmpExc,       \* the exception the last BMP280 operation ended in, "none" if it returned
    bmpPrev,      \* history: the driver fields before the last operation
    bmpPrevStore, \* history: the Reading Store before the last BMP280 operation
    bmpPolls,     \* history: the status bytes _get_status returned during the last read()
    bmpCtrlMeasReg, \* the device: the byte last written to its ctrl_meas register,
                  \* None before the first write
    bmpComp,      \* history: the pressure compensation of the last BMP280 operation:
                  \* [reached, t_fine: the _t_fine it read, tsample: the temperature
                  \* sample the operation read before it, <<>> if it read none]
    bmpPc,        \* where the driver is: "idle", or "polling" inside the loop of
                  \* _read_temperature
    bmpBusy,      \* the polls of the read() in progress that found bit 3 set
    bmpMeasuring, \* the device: a conversion is running (status bit 3)
    conn,         \* per device, the Sensor base class fields retries and _connected,
                  \* whether __init__ has run, where the device's bus transaction
                  \* stands (phase, kind), and the history fields opens (I2CDevice()
                  \* calls) and everOpened (one of them succeeded)
    busOwner,     \* the device whose I2CDevice holds the bus lock, "free" if none
    busOp,        \* history: the last transport step [name, dev, exc, failed, opened,
                  \* retriesBefore]
    eqOp,         \* last call into equations.py, "none" before the first
    eqAltitude,   \* the altitude argument of that call, in metres
    eqPressure,   \* the pressure argument of that call, in tenths of a hPa
    eqResult      \* what the call returned, in millionths of a hPa

timerVars == <<clock, now, events, regTime, fired, firedBefore, raised,
               prevAtTick, storeAtTick, tickInput, timerOp>>
aqiVars == <<aqiBuffer, aqiErrors, aqiResults, aqiPrevStore, aqiOp>>
scdVars == <<scdBuffer, scdCache, scdOp, scdExc, scdResult, scdArg, scdWrites, scdReply,
             scdPrevCache, scdPrevStore, scdDevice, scdPrevDevice>>
bmpVars == <<bmp, bmpOp, bmpBus, bmpLogged, bmpExc, bmpPrev, bmpPrevStore, bmpPolls,
            bmpCtrlMeasReg, bmpComp>>
bmpLoopVars == <<bmpPc, bmpBusy, bmpMeasuring>>
busVars == <<conn, busOwner, busOp>>
eqVars == <<eqOp, eqAltitude, eqPressure, eqResult>>
vars == <<store, lastRead, timerVars, aqiVars, scdVars, bmpVars, bmpLoopVars, busVars, eqVars>>

-----------------------------------------------------------------------------
(* Bounds *)

\* largest clock reading of a run
MaxTime == 6
\* largest clock reading while the events are being registered
MaxStart == 1
\* largest number of status polls that find the BMP280 still converting
MaxBusy == 1
\* largest number of I2CDevice() calls followed for one device
MaxOpens == 7

-----------------------------------------------------------------------------
(* Bytes and bit operations *)

Byte == 0..255

RECURSIVE BitAnd(_, _)
\* Python's a & b on non-negative integers
BitAnd(a, b) ==
    IF a = 0 \/ b = 0 THEN 0
    ELSE (IF a % 2 = 1 /\ b % 2 = 1 THEN 1 ELSE 0) + 2 * BitAnd(a \div 2, b \div 2)

RECURSIVE BitXor(_, _)
\* Python's a ^ b on non-negative integers
BitXor(a, b) ==
    IF a = 0 THEN b
    ELSE IF b = 0 THEN a
    ELSE (IF a % 2 = b % 2 THEN 0 ELSE 1) + 2 * BitXor(a \div 2, b \div 2)

RECURSIVE SumBytes(_, _, _)
\* Python's sum(buf[lo-1:hi]) (1-based, inclusive bounds)
SumBytes(buf, lo, hi) ==
    IF lo > hi THEN 0 ELSE buf[lo] + SumBytes(buf, lo + 1, hi)

\* struct.unpack(">H", two bytes)
UnpackBE16(hi, lo) == hi * 256 + lo

-----------------------------------------------------------------------------
(* Reading Store *)

StoreFields == {"pm10", "pm25", "pm100", "temp_c", "pressure_hpa", "co2", "humidity"}

\* SensorData(): every field defaults to 0
SensorData == [f \in StoreFields |-> 0]

-----------------------------------------------------------------------------
(* Particulate sensor driver (pm25aqi.py) *)

\* bytearray(32)
AQIEmptyBuffer == [i \in 1..32 |-> 0]

\* header = self._buffer[0:2]; header == b"BM"
AQIHeaderOk(buf) == buf[1] = 66 /\ buf[2] = 77

\* frame_size = struct.unpack(">H", self._buffer[2:4])[0]
AQIFrameSize(buf) == UnpackBE16(buf[3], buf[4])

\* checksum = struct.unpack(">H", self._buffer[30:32])[0]
AQIChecksum(buf) == UnpackBE16(buf[31], buf[32])

\* check = sum(self._buffer[0:30])
AQICheck(buf) == SumBytes(buf, 1, 30)

\* results = struct.unpack(">HHHHHHHHHHHH", self._buffer[4:28])
AQIUnpack(buf) == [k \in 1..12 |-> UnpackBE16(buf[3 + 2 * k], buf[4 + 2 * k])]

\* the logger.error calls of read(): none of them returns from read()
AQILogged(buf) ==
    (IF AQIHeaderOk(buf) THEN {} ELSE {"Invalid header"})
    \cup (IF AQIFrameSize(buf) # 28 THEN {"Invalid Frame Size"} ELSE {})
    \cup (IF AQICheck(buf) # AQIChecksum(buf) THEN {"Invalid checksum"} ELSE {})

\* a store assignment that swaps PM2.5 and PM10
AQIStoreSwapped(results, st) ==
    [st EXCEPT !["pm10"] = results[1], !["pm25"] = results[3], !["pm100"] = results[2]]

\* self._sensor_data.pm10 / pm25 / pm100 = results[0] / [1] / [2]
AQIStore(results, st) ==
    [st EXCEPT !["pm10"] = results[1], !["pm25"] = results[2], !["pm100"] = results[3]]

\* a read that builds a fresh record and so resets the other drivers' fields
AQIReadStoreFresh(buf, st) == AQIStore(AQIUnpack(buf), SensorData)

\* the Reading Store after read() has processed the buffer: the validation
\* errors are only logged, the unpack of 24 bytes into 12 fields cannot fail
AQIReadStore(buf, st) == AQIStore(AQIUnpack(buf), st)

\* a frame as the device sends it: header, declared length, the first three
\* data fields, a fourth field, and the checksum offset from the true sum
AQIFrame(h2, len, f1, f2, f3, f4, ckoff) ==
    LET body == [i \in 1..30 |->
                   CASE i = 1 -> 66
                     [] i = 2 -> h2
                     [] i = 3 -> len \div 256
                     [] i = 4 -> len % 256
                     [] i = 5 -> f1 \div 256
                     [] i = 6 -> f1 % 256
                     [] i = 7 -> f2 \div 256
                     [] i = 8 -> f2 % 256
                     [] i = 9 -> f3 \div 256
                     [] i = 10 -> f3 % 256
                     [] i = 11 -> f4 \div 256
                     [] i = 12 -> f4 % 256
                     [] OTHER -> 0]
        ck == (SumBytes(body, 1, 30) + ckoff) % 65536
    IN [i \in 1..32 |-> IF i <= 30 THEN body[i]
                        ELSE IF i = 31 THEN ck \div 256 ELSE ck % 256]

\* field values a frame may carry
AQIFieldValues == {7, 258, 65535}

\* the frames the device may send
AQIFrames ==
    {AQIFrame(h2, len, f1, f2, f3, f4, ckoff) :
        h2 \in {77, 88}, len \in {28, 20}, f1 \in AQIFieldValues,
        f2 \in {0, 258}, f3 \in {9}, f4 \in {11}, ckoff \in {0, 1}}

\* the frames sent while the three drivers share the store
ReadsFrames ==
    {AQIFrame(77, 28, 7, 258, 9, 11, 0), AQIFrame(88, 20, 258, 0, 9, 11, 1)}

\* self._read_raw(length=32): the bus read fills the buffer, or fails and
\* leaves it as it was
AQIReadRaw(buf, frame, ok) == IF ok THEN frame ELSE buf

\* AQISensor.read(): [buffer, errors, results, store]
AQIReadResult(buf, st, frame, ok) ==
    LET nb == AQIReadRaw(buf, frame, ok)
    IN [buffer |-> nb, errors |-> AQILogged(nb), results |-> AQIUnpack(nb),
        store |-> AQIReadStore(nb, st)]

\* AQISensor.read()
AQIRead(frame, ok) ==
    /\ aqiBuffer' = AQIReadResult(aqiBuffer, store, frame, ok).buffer
    /\ aqiErrors' = AQIReadResult(aqiBuffer, store, frame, ok).errors
    /\ aqiResults' = AQIReadResult(aqiBuffer, store, frame, ok).results
    /\ store' = AQIReadResult(aqiBuffer, store, frame, ok).store
    /\ aqiPrevStore' = store
    /\ aqiOp' = "read"
    /\ lastRead' = "aqi"
    /\ UNCHANGED <<bmpLoopVars, eqVars, busVars, timerVars, scdVars, bmpVars>>

AQIInit ==
    /\ aqiBuffer = AQIEmptyBuffer
    /\ aqiErrors = {}
    /\ aqiResults = <<>>
    /\ aqiPrevStore = SensorData
    /\ aqiOp = "init"

-----------------------------------------------------------------------------
(* SCD40 driver (scd40.py) *)

\* Python's None, kept apart from every number the program computes
None == -999999999

\* Cmd enum values
CmdForcedRecal == 13871
CmdDataReady == 58552
CmdStopPeriodicMeasurement == 16262
CmdReadMeasurement == 60421
CmdGetTempOffset == 8984
CmdSetTempOffset == 9245
CmdSetAltitude == 9255
CmdSetPressure == 57344
CmdReinit == 13894
CmdFactoryReset == 13874
CmdSelfTest == 13881
CmdStartPeriodicMeasurement == 8625
CmdStartLowPowerPeriodicMeasurement == 8620

\* the two bytes of a 16-bit command or argument, high byte first
Word(w) == <<(w \div 256) % 256, w % 256>>

\* bytearray(18)
ScdEmptyBuffer == [i \in 1..18 |-> 0]

RECURSIVE Crc8Bits(_, _)
\* the inner loop of _crc8: k shift steps, crc is not masked while it runs
Crc8Bits(crc, k) ==
    IF k = 0 THEN crc
    ELSE Crc8Bits(IF BitAnd(crc, 128) # 0 THEN BitXor(crc * 2, 49) ELSE crc * 2, k - 1)

RECURSIVE Crc8From(_, _, _)
\* the outer loop of _crc8 from byte i on
Crc8From(buffer, i, crc) ==
    IF i > Len(buffer) THEN crc
    ELSE Crc8From(buffer, i + 1, Crc8Bits(BitXor(crc, buffer[i]), 8))

\* a CRC that starts from 0x00 instead of 0xFF
Crc8ZeroInit(buffer) == BitAnd(Crc8From(buffer, 1, 0), 255)

\* SCD40._crc8
Crc8(buffer) == BitAnd(Crc8From(buffer, 1, 255), 255)

RECURSIVE CheckBufferCrcFrom(_, _)
\* the loop of _check_buffer_crc from index i (1-based) on
CheckBufferCrcFrom(buf, i) ==
    IF i > Len(buf) THEN "none"
    ELSE IF Crc8(<<buf[i], buf[i + 1]>>) # buf[i + 2] THEN "RuntimeError"
    ELSE CheckBufferCrcFrom(buf, i + 3)

\* SCD40._check_buffer_crc: the exception it raises, "none" when it returns True
CheckBufferCrc(buf) == CheckBufferCrcFrom(buf, 1)

\* buff[0:num] = the bytes the device sends
ReadInto(buf, reply, num) ==
    [i \in 1..Len(buf) |-> IF i <= num /\ i <= Len(reply) THEN reply[i] ELSE buf[i]]

\* SCD40._read_reply(buff, num) called positionally with buff = self._buffer
ScdReadReply(buf, reply, num) ==
    LET nb == ReadInto(buf, reply, num)
    IN [exc |-> CheckBufferCrc(SubSeq(nb, 1, num)), buf |-> nb]

\* a keyword call that binds, returning the device's bytes without the CRC check
ScdReadReplyKwUnchecked(buf, reply, length) == [exc |-> "none", value |-> reply]

\* self._read_reply(delay_ms=..., length=..., cmd=...): the only _read_reply the
\* class resolves is (self, buff, num), so binding the keywords raises TypeError
ScdReadReplyKw(buf, reply, length) == [exc |-> "TypeError", value |-> None]

\* data_ready: [exc, buf, ready]
ScdDataReady(buf, status) ==
    LET r == ScdReadReplyKw(buf, status, 3)
    IN IF r.exc # "none" THEN [exc |-> r.exc, buf |-> buf, ready |-> FALSE]
       ELSE [exc |-> "none", buf |-> r.value,
             ready |-> ~(BitAnd(r.value[1], 7) = 0 /\ r.value[2] = 0)]

\* cached readings; the floats are kept as exact numerators over 2**16:
\* temperature = -45 + 175 * (temp / 2**16), relative_humidity = 100 * (humi / 2**16)
ScdNoCache == [co2 |-> None, temperature |-> None, relative_humidity |-> None]

\* _read_data: [exc, buf, cache]
ScdReadData(buf, cache, meas) ==
    LET r == ScdReadReplyKw(buf, meas, 9)
    IN IF r.exc # "none" THEN [exc |-> r.exc, buf |-> buf, cache |-> cache]
       ELSE [exc |-> "none", buf |-> r.value,
             cache |-> [co2 |-> r.value[1] * 256 + r.value[2],
                        temperature |-> 175 * (r.value[4] * 256 + r.value[5]) - 45 * 65536,
                        relative_humidity |-> 100 * (r.value[7] * 256 + r.value[8])]]

\* the CO2 / temperature / relative_humidity accessors: [exc, buf, cache, value]
ScdAccessor(name, buf, cache, status, meas) ==
    LET d == ScdDataReady(buf, status)
    IN IF d.exc # "none" THEN [exc |-> d.exc, buf |-> d.buf, cache |-> cache, value |-> None]
       ELSE IF ~d.ready THEN [exc |-> "none", buf |-> d.buf, cache |-> cache, value |-> cache[name]]
       ELSE LET m == ScdReadData(d.buf, cache, meas)
            IN IF m.exc # "none"
               THEN [exc |-> m.exc, buf |-> m.buf, cache |-> m.cache, value |-> None]
               ELSE [exc |-> "none", buf |-> m.buf, cache |-> m.cache, value |-> m.cache[name]]

\* a Cmd member used as the left operand of >> or &: Cmd derives from Enum, not
\* IntEnum, so the operator raises TypeError
ScdCmdOperand(cmd) == [exc |-> "TypeError", value |-> None]

\* _set_command_value(cmd, value): [exc, buf, written]
ScdSetCommandValue(cmd, value, buf) ==
    LET c == ScdCmdOperand(cmd)
    IN IF c.exc # "none" THEN [exc |-> c.exc, buf |-> buf, written |-> <<>>]
       ELSE LET hi == (value \div 256) % 256
                lo == value % 256
                nb == [i \in 1..Len(buf) |->
                         CASE i = 1 -> (c.value \div 256) % 256
                           [] i = 2 -> c.value % 256
                           [] i = 3 -> hi
                           [] i = 4 -> lo
                           [] i = 5 -> Crc8(<<hi, lo>>)
                           [] OTHER -> buf[i]]
            IN [exc |-> "none", buf |-> nb, written |-> <<SubSeq(nb, 1, 5)>>]

\* struct.unpack_from(">h", two bytes): signed 16-bit, big-endian
UnpackSignedBE16(hi, lo) ==
    IF hi * 256 + lo >= 32768 THEN hi * 256 + lo - 65536 ELSE hi * 256 + lo

\* self._send_cmd(cmd, delay_ms): the 16-bit command code goes on the bus
ScdSendCmd(cmd) == <<Word(cmd)>>

\* the 16-bit command code at the head of one write
ScdWriteCmd(w) == w[1] * 256 + w[2]

\* the device, in one of the measurement states Idle, PeriodicMeasurement and
\* LowPowerPeriodicMeasurement, receives one write: stop-periodic-measurement
\* ends a periodic state, a start command begins one from Idle, and no other
\* command changes the measurement state
ScdDeviceStep(state, w) ==
    IF ScdWriteCmd(w) = CmdStopPeriodicMeasurement THEN "Idle"
    ELSE IF state = "Idle" /\ ScdWriteCmd(w) = CmdStartPeriodicMeasurement
         THEN "PeriodicMeasurement"
    ELSE IF state = "Idle" /\ ScdWriteCmd(w) = CmdStartLowPowerPeriodicMeasurement
         THEN "LowPowerPeriodicMeasurement"
    ELSE state

RECURSIVE ScdDeviceRun(_, _)
\* the device's state after the writes of one operation, in order
ScdDeviceRun(state, writes) ==
    IF writes = <<>> THEN state
    ELSE ScdDeviceRun(ScdDeviceStep(state, Head(writes)), Tail(writes))

\* self_test(): stop_periodic_measurement(), then the keyword call of
\* _read_reply with cmd=Cmd.SELFTEST; a reply word other than 0 is a
\* RuntimeError
ScdSelfTestResult(buf, reply) ==
    LET stop == ScdSendCmd(CmdStopPeriodicMeasurement)
        r == ScdReadReplyKw(buf, reply, 3)
    IN IF r.exc # "none" THEN [exc |-> r.exc, buf |-> buf, written |-> stop]
       ELSE [exc |-> IF r.value[1] # 0 \/ r.value[2] # 0 THEN "RuntimeError" ELSE "none",
             buf |-> r.value, written |-> stop \o ScdSendCmd(CmdSelfTest)]

\* force_calibration(target_co2): [exc, buf, written]
ScdForceCalibrationResult(target, buf, reply) ==
    LET stop == ScdSendCmd(CmdStopPeriodicMeasurement)
        s == ScdSetCommandValue(CmdForcedRecal, target, buf)
    IN IF s.exc # "none" THEN [exc |-> s.exc, buf |-> s.buf, written |-> stop]
       ELSE LET r == ScdReadReply(s.buf, reply, 3)
            IN IF r.exc # "none"
               THEN [exc |-> r.exc, buf |-> r.buf, written |-> stop \o s.written]
               ELSE [exc |-> IF UnpackSignedBE16(r.buf[1], r.buf[2]) = 65535
                             THEN "RuntimeError" ELSE "none",
                     buf |-> r.buf, written |-> stop \o s.written]

\* read(): [exc, buf, cache, store]
ScdReadResult(buf, cache, st, status1, meas1, status2, meas2) ==
    LET c == ScdAccessor("co2", buf, cache, status1, meas1)
    IN IF c.exc # "none" THEN [exc |-> c.exc, buf |-> c.buf, cache |-> c.cache, store |-> st]
       ELSE LET h == ScdAccessor("relative_humidity", c.buf, c.cache, status2, meas2)
            IN IF h.exc # "none"
               THEN [exc |-> h.exc, buf |-> h.buf, cache |-> h.cache, store |-> st]
               ELSE [exc |-> "none", buf |-> h.buf, cache |-> h.cache,
                     store |-> [st EXCEPT !["co2"] = c.value, !["humidity"] = h.value]]

\* byte values the device's replies are built from
ReplyBytes == {0, 239, 255}

\* a 2-byte word followed by a CRC byte that is right (k = 0), off by one, or zero
Group(a, b, k) ==
    <<a, b, CASE k = 0 -> Crc8(<<a, b>>)
              [] k = 1 -> (Crc8(<<a, b>>) + 1) % 256
              [] OTHER -> 0>>

\* 3-byte replies (status words, correction words, offsets)
Replies3 == {Group(a, b, k) : a \in ReplyBytes, b \in ReplyBytes, k \in 0..1}

\* data-ready status words
StatusReplies == {Group(0, 0, 0), Group(128, 0, 0), Group(128, 6, 0), Group(128, 6, 1)}

\* 9-byte measurement replies: CO2, temperature, humidity, each with its CRC
MeasReplies ==
    {Group(1, 190, k1) \o Group(102, 103, k2) \o Group(94, 0, k3) :
        k1 \in 0..1, k2 \in 0..1, k3 \in 0..1} \ {Group(1, 190, 1) \o Group(102, 103, 1) \o Group(94, 0, 1)}

\* the measurement the device holds once its next measurement interval has
\* ended: other CO2 and humidity words than in MeasReplies
MeasLater == Group(2, 88, 0) \o Group(102, 103, 0) \o Group(96, 0, 0)

\* the status words an accessor polled on its own may get: not ready, ready
AccessorStatusReplies == {Group(0, 0, 0), Group(128, 6, 0)}

\* the measurement replies an accessor polled on its own may get
AccessorMeasReplies ==
    {Group(1, 190, 0) \o Group(102, 103, 0) \o Group(94, 0, 0),
     Group(1, 190, 0) \o Group(102, 103, 1) \o Group(94, 0, 0)}

\* some 3-byte group of a reply fails its CRC
BadCrc(reply) ==
    \E g \in 0..(Len(reply) \div 3 - 1) :
        Crc8(<<reply[3 * g + 1], reply[3 * g + 2]>>) # reply[3 * g + 3]

\* SCD40.read() once it has ended in r
ScdReadDone(status1, meas1, status2, meas2, r) ==
    /\ scdBuffer' = r.buf
    /\ scdCache' = r.cache
    /\ store' = r.store
    /\ scdExc' = r.exc
    /\ scdResult' = None
    /\ scdArg' = None
    /\ scdWrites' = <<>>
    /\ scdOp' = "read"
    /\ scdReply' = [status |-> status1, meas |-> meas1, status2 |-> status2, meas2 |-> meas2]
    /\ scdPrevCache' = scdCache
    /\ scdPrevStore' = store
    /\ scdPrevDevice' = scdDevice
    /\ scdDevice' = ScdDeviceRun(scdDevice, scdWrites')
    /\ lastRead' = "scd"
    /\ UNCHANGED <<bmpLoopVars, eqVars, busVars, timerVars, aqiVars, bmpVars>>

\* SCD40.read(); the device answers the first data_ready poll with status1 and
\* holds meas1, and answers the second poll with status2 and holds meas2
ScdRead(status1, meas1, status2, meas2) ==
    ScdReadDone(status1, meas1, status2, meas2,
                ScdReadResult(scdBuffer, scdCache, store, status1, meas1, status2, meas2))

\* a CO2, temperature or relative_humidity property once it has ended in r
ScdGetDone(name, status, meas, r) ==
       /\ scdBuffer' = r.buf
       /\ scdCache' = r.cache
       /\ scdExc' = r.exc
       /\ scdResult' = r.value
       /\ scdArg' = None
       /\ scdWrites' = <<>>
       /\ scdOp' = name
       /\ scdReply' = [status |-> status, meas |-> meas, status2 |-> status, meas2 |-> meas]
       /\ scdPrevCache' = scdCache
       /\ scdPrevStore' = store
       /\ scdPrevDevice' = scdDevice
       /\ scdDevice' = ScdDeviceRun(scdDevice, scdWrites')
       /\ UNCHANGED <<lastRead, bmpLoopVars, eqVars, busVars, store, timerVars, aqiVars, bmpVars>>

\* the CO2, temperature and relative_humidity properties
ScdGet(name, status, meas) ==
    ScdGetDone(name, status, meas, ScdAccessor(name, scdBuffer, scdCache, status, meas))

\* SCD40.force_calibration(target_co2)
ScdForceCalibration(target, reply) ==
    LET r == ScdForceCalibrationResult(target, scdBuffer, reply)
    IN /\ scdBuffer' = r.buf
       /\ scdExc' = r.exc
       /\ scdResult' = None
       /\ scdArg' = target
       /\ scdWrites' = r.written
       /\ scdOp' = "force_calibration"
       /\ scdReply' = [status |-> reply, meas |-> <<>>, status2 |-> <<>>, meas2 |-> <<>>]
       /\ scdPrevCache' = scdCache
       /\ scdPrevStore' = store
       /\ scdPrevDevice' = scdDevice
       /\ scdDevice' = ScdDeviceRun(scdDevice, scdWrites')
       /\ UNCHANGED <<lastRead, bmpLoopVars, eqVars, busVars, store, scdCache, timerVars, aqiVars, bmpVars>>

\* the temperature_offset getter after _read_reply left r; the float it
\* returns is kept as the numerator of 175.0 * temp / 2**16
ScdTemperatureOffsetDone(reply, r) ==
    /\ scdBuffer' = r.buf
    /\ scdExc' = r.exc
    /\ scdResult' = IF r.exc = "none" THEN 175 * (r.buf[1] * 256 + r.buf[2]) ELSE None
    /\ scdArg' = None
    /\ scdWrites' = ScdSendCmd(CmdGetTempOffset)
    /\ scdOp' = "temperature_offset"
    /\ scdReply' = [status |-> reply, meas |-> <<>>, status2 |-> <<>>, meas2 |-> <<>>]
    /\ scdPrevCache' = scdCache
    /\ scdPrevStore' = store
    /\ scdPrevDevice' = scdDevice
    /\ scdDevice' = ScdDeviceRun(scdDevice, scdWrites')
    /\ UNCHANGED <<lastRead, bmpLoopVars, eqVars, busVars, store, scdCache, timerVars, aqiVars, bmpVars>>

\* the data_ready property once it has evaluated to r; True is 1, False is 0
ScdDataReadyDone(status, r) ==
    /\ scdBuffer' = r.buf
    /\ scdExc' = r.exc
    /\ scdResult' = IF r.exc # "none" THEN None ELSE IF r.ready THEN 1 ELSE 0
    /\ scdArg' = None
    /\ scdWrites' = <<>>
    /\ scdOp' = "data_ready"
    /\ scdReply' = [status |-> status, meas |-> <<>>, status2 |-> <<>>, meas2 |-> <<>>]
    /\ scdPrevCache' = scdCache
    /\ scdPrevStore' = store
    /\ scdPrevDevice' = scdDevice
    /\ scdDevice' = ScdDeviceRun(scdDevice, scdWrites')
    /\ UNCHANGED <<lastRead, bmpLoopVars, eqVars, busVars, store, scdCache, timerVars, aqiVars, bmpVars>>

\* the data_ready property
ScdDataReadyGet(status) == ScdDataReadyDone(status, ScdDataReady(scdBuffer, status))

\* the temperature_offset getter
ScdTemperatureOffsetGet(reply) ==
    ScdTemperatureOffsetDone(reply, ScdReadReply(scdBuffer, reply, 3))

\* an argument check that lets every value through
ScdRangeAcceptAll(name, value) == "none"

\* the argument checks of the temperature_offset setter, set_ambient_pressure
\* and the altitude setter: the exception they raise, "none" when they pass
ScdRangeCheck(name, value) ==
    CASE name = "temperature_offset_set" ->
           IF value > 374 THEN "AttributeError" ELSE "none"
      [] name = "set_ambient_pressure" ->
           IF value < 0 \/ value > 65535 THEN "AttributeError" ELSE "none"
      [] name = "altitude_set" ->
           IF value > 65535 THEN "AttributeError" ELSE "none"

\* temp = int(offset * 2**16 / 175): int() truncates towards zero
ScdOffsetRaw(offset) ==
    IF offset >= 0 THEN (offset * 65536) \div 175 ELSE -((-offset * 65536) \div 175)

\* the command and the value each setter hands to _set_command_value
ScdSetterCmd(name) ==
    CASE name = "temperature_offset_set" -> CmdSetTempOffset
      [] name = "set_ambient_pressure" -> CmdSetPressure
      [] name = "altitude_set" -> CmdSetAltitude

ScdSetterValue(name, value) ==
    IF name = "temperature_offset_set" THEN ScdOffsetRaw(value) ELSE value

\* the setter after its argument check ended in exc and, when it passed,
\* _set_command_value left s
ScdSetterDone(name, value, exc, s) ==
    /\ scdBuffer' = IF exc # "none" THEN scdBuffer ELSE s.buf
    /\ scdExc' = IF exc # "none" THEN exc ELSE s.exc
    /\ scdWrites' = IF exc # "none" THEN <<>> ELSE s.written
    /\ scdResult' = None
    /\ scdArg' = value
    /\ scdOp' = name
    /\ scdReply' = [status |-> <<>>, meas |-> <<>>, status2 |-> <<>>, meas2 |-> <<>>]
    /\ scdPrevCache' = scdCache
    /\ scdPrevStore' = store
    /\ scdPrevDevice' = scdDevice
    /\ scdDevice' = ScdDeviceRun(scdDevice, scdWrites')
    /\ UNCHANGED <<lastRead, bmpLoopVars, eqVars, busVars, store, scdCache, timerVars, aqiVars, bmpVars>>

\* the temperature_offset setter, set_ambient_pressure(ambient_pressure) and
\* the altitude setter
ScdSet(name, value) ==
    ScdSetterDone(name, value, ScdRangeCheck(name, value),
                  ScdSetCommandValue(ScdSetterCmd(name), ScdSetterValue(name, value), scdBuffer))

\* an operation that only sends commands, once it has ended in r
ScdCommandDone(name, reply, r) ==
    /\ scdBuffer' = r.buf
    /\ scdExc' = r.exc
    /\ scdResult' = None
    /\ scdArg' = None
    /\ scdWrites' = r.written
    /\ scdOp' = name
    /\ scdReply' = [status |-> reply, meas |-> <<>>, status2 |-> <<>>, meas2 |-> <<>>]
    /\ scdPrevCache' = scdCache
    /\ scdPrevStore' = store
    /\ scdPrevDevice' = scdDevice
    /\ scdDevice' = ScdDeviceRun(scdDevice, r.written)
    /\ UNCHANGED <<lastRead, bmpLoopVars, eqVars, busVars, store, scdCache, timerVars, aqiVars, bmpVars>>

\* SCD40.__init__ on a device in any measurement state: a new object, whose
\* last statement is stop_periodic_measurement()
ScdConstruct ==
    /\ scdBuffer' = ScdEmptyBuffer
    /\ scdCache' = ScdNoCache
    /\ scdExc' = "none"
    /\ scdResult' = None
    /\ scdArg' = None
    /\ scdWrites' = ScdSendCmd(CmdStopPeriodicMeasurement)
    /\ scdOp' = "init"
    /\ scdReply' = [status |-> <<>>, meas |-> <<>>, status2 |-> <<>>, meas2 |-> <<>>]
    /\ scdPrevCache' = ScdNoCache
    /\ scdPrevStore' = store
    /\ scdPrevDevice' = scdDevice
    /\ scdDevice' = ScdDeviceRun(scdDevice, ScdSendCmd(CmdStopPeriodicMeasurement))
    /\ UNCHANGED <<lastRead, bmpLoopVars, eqVars, busVars, store, timerVars, aqiVars, bmpVars>>

\* a method that sends the commands cmds, in order, and returns
ScdSent(cmds) == [exc |-> "none", buf |-> scdBuffer, written |-> cmds]

\* stop_periodic_measurement()
ScdStopPeriodicMeasurement ==
    ScdCommandDone("stop_periodic_measurement", <<>>,
                   ScdSent(ScdSendCmd(CmdStopPeriodicMeasurement)))

\* start_periodic_measurement()
ScdStartPeriodicMeasurement ==
    ScdCommandDone("start_periodic_measurement", <<>>,
                   ScdSent(ScdSendCmd(CmdStartPeriodicMeasurement)))

\* start_low_periodic_measurement()
ScdStartLowPeriodicMeasurement ==
    ScdCommandDone("start_low_periodic_measurement", <<>>,
                   ScdSent(ScdSendCmd(CmdStartLowPowerPeriodicMeasurement)))

\* reinit(): stop_periodic_measurement(), then Cmd.REINIT
ScdReinit ==
    ScdCommandDone("reinit", <<>>,
                   ScdSent(ScdSendCmd(CmdStopPeriodicMeasurement) \o ScdSendCmd(CmdReinit)))

\* factory_reset(): stop_periodic_measurement(), then Cmd.FACTORYRESET
ScdFactoryReset ==
    ScdCommandDone("factory_reset", <<>>,
                   ScdSent(ScdSendCmd(CmdStopPeriodicMeasurement)
                           \o ScdSendCmd(CmdFactoryReset)))

\* self_test()
ScdSelfTest(reply) == ScdCommandDone("self_test", reply, ScdSelfTestResult(scdBuffer, reply))

\* the state SCD40.__init__ leaves: empty buffer, no cached reading, and the
\* stop_periodic_measurement command sent
ScdInit ==
    /\ scdBuffer = ScdEmptyBuffer
    /\ scdCache = ScdNoCache
    /\ scdOp = "init"
    /\ scdExc = "none"
    /\ scdResult = None
    /\ scdArg = None
    /\ scdWrites = ScdSendCmd(CmdStopPeriodicMeasurement)
    /\ scdReply = [status |-> <<>>, meas |-> <<>>, status2 |-> <<>>, meas2 |-> <<>>]
    /\ scdPrevCache = ScdNoCache
    /\ scdPrevStore = SensorData
    /\ scdPrevDevice = "Idle"
    /\ scdDevice = ScdDeviceRun("Idle", ScdSendCmd(CmdStopPeriodicMeasurement))

-----------------------------------------------------------------------------
(* BMP280 driver (bmp280.py) *)

ChipId == 88

\* Register addresses
RegChipId == 208
RegDigT1 == 136
RegSoftReset == 224
RegStatus == 243
RegCtrlMeas == 244
RegConfig == 245
RegPressureData == 247
RegTempData == 250

\* Mode
ModeSleep == 0
ModeForce == 1
ModeNormal == 3
Mode == {ModeSleep, ModeForce, ModeNormal}

\* IIR_Filter, Overscan and Standby values
IIRFilter == 0..4
Overscan == 0..5
Standby == 0..7

\* the driver before _read_coefficients has run: _temp_calib and
\* _pressure_calib do not exist
BmpNoCalib == [T |-> <<>>, P |-> <<>>]

\* the defaults __init__ assigns
BmpDefaults ==
    [mode |-> ModeSleep, iir_filter |-> 0, overscan_temperature |-> 2,
     overscan_pressure |-> 5, t_standby |-> 0, t_fine |-> None, calib |-> BmpNoCalib,
     sea_level_pressure |-> 101325]

\* self._send_cmd(bytearray([register, value])): one register write on the bus
BmpWrite(reg, val) == [op |-> "write", reg |-> reg, val |-> val]

\* self._read_byte(register) / self._read_register(register, length): one bus read
BmpReadReg(reg, len) == [op |-> "read", reg |-> reg, val |-> len]

\* _config: the standby bits are added only while the mode is Normal
BmpConfig(d) ==
    (IF d.mode = ModeNormal THEN d.t_standby * 32 ELSE 0)
    + (IF d.iir_filter # 0 THEN d.iir_filter * 4 ELSE 0)

\* a _ctrl_meas that shifts the temperature oversampling by 4 bits only
BmpCtrlMeasShift4(d) == d.overscan_temperature * 16 + d.overscan_pressure * 4 + d.mode

\* _ctrl_meas
BmpCtrlMeas(d) == d.overscan_temperature * 32 + d.overscan_pressure * 4 + d.mode

\* _write_ctrl_meas: the bus after it
BmpWriteCtrlMeas(d, bus) == Append(bus, BmpWrite(RegCtrlMeas, BmpCtrlMeas(d)))

\* the mode setter with a member of Mode: [d, bus]
BmpModeSet(d, bus, value) ==
    LET nd == [d EXCEPT !.mode = value]
    IN [d |-> nd, bus |-> BmpWriteCtrlMeas(nd, bus)]

\* a _write_config that writes the config register without leaving Normal mode
BmpWriteConfigDirect(d, bus) ==
    [d |-> d, bus |-> Append(bus, BmpWrite(RegConfig, BmpConfig(d)))]

\* _write_config: [d, bus]
BmpWriteConfig(d, bus) ==
    IF d.mode = ModeNormal
    THEN LET s == BmpModeSet(d, bus, ModeSleep)
             c == Append(s.bus, BmpWrite(RegConfig, BmpConfig(s.d)))
         IN BmpModeSet(s.d, c, ModeNormal)
    ELSE [d |-> d, bus |-> Append(bus, BmpWrite(RegConfig, BmpConfig(d)))]

\* a membership test that lets every value through
BmpAcceptAll(value, members) == {"none"}

\* "if value not in <IntEnum>: raise ValueError": a member passes; for any other
\* value the test itself raises TypeError (Python 3.8 to 3.11) or is True and
\* the ValueError is raised (Python 3.12 on). The exceptions the setter can end in
BmpCheckMember(value, members) ==
    IF value \in members THEN {"none"} ELSE {"TypeError", "ValueError"}

\* an operation that does not reach the pressure compensation
BmpNoComp == [reached |-> FALSE, t_fine |-> None, tsample |-> <<>>]

\* the ctrl_meas register after the bus transactions bus, when it held before:
\* the value of the last write that went to Register.CTRL_MEAS
BmpCtrlMeasAfter(bus, before) ==
    LET w == SelectSeq(bus, LAMBDA t : t.op = "write" /\ t.reg = RegCtrlMeas)
    IN IF w = <<>> THEN before ELSE w[Len(w)].val

\* one operation that returned
BmpDone(name, arg, r, logged) ==
    /\ bmp' = r.d
    /\ bmpBus' = r.bus
    /\ bmpOp' = [name |-> name, arg |-> arg]
    /\ bmpLogged' = logged
    /\ bmpExc' = "none"
    /\ bmpPrev' = bmp
    /\ bmpPrevStore' = store
    /\ bmpPolls' = <<>>
    /\ bmpCtrlMeasReg' = BmpCtrlMeasAfter(r.bus, bmpCtrlMeasReg)
    /\ bmpComp' = BmpNoComp
    /\ UNCHANGED <<lastRead, bmpLoopVars, eqVars, busVars, store, timerVars, aqiVars, scdVars>>

\* a setter that raised in its membership test: nothing assigned, nothing written
BmpRejected(name, arg, exc) ==
    /\ bmp' = bmp
    /\ bmpBus' = <<>>
    /\ bmpOp' = [name |-> name, arg |-> arg]
    /\ bmpLogged' = {}
    /\ bmpExc' = exc
    /\ bmpPrev' = bmp
    /\ bmpPrevStore' = store
    /\ bmpPolls' = <<>>
    /\ bmpComp' = BmpNoComp
    /\ UNCHANGED <<bmpCtrlMeasReg, lastRead, bmpLoopVars, eqVars, busVars, store, timerVars, aqiVars, scdVars>>

BmpConstructed == bmpOp.name # "new"

\* struct.unpack("<H") and struct.unpack("<h") of two bytes
UnpackLE16(lo, hi) == hi * 256 + lo

UnpackSignedLE16(lo, hi) ==
    IF hi * 256 + lo >= 32768 THEN hi * 256 + lo - 65536 ELSE hi * 256 + lo

\* a constructor that leaves the coefficients unloaded
BmpNoCoefficients(coeff) == BmpNoCalib

\* _read_coefficients: struct.unpack("<HhhHhhhhhhhh") of the 24 bytes read at
\* DIG_T1; _temp_calib = coeff[:3] (T), _pressure_calib = coeff[3:] (P)
BmpReadCoefficients(coeff) ==
    [T |-> [k \in 1..3 |-> IF k = 1 THEN UnpackLE16(coeff[1], coeff[2])
                           ELSE UnpackSignedLE16(coeff[2 * k - 1], coeff[2 * k])],
     P |-> [k \in 1..9 |-> IF k = 1 THEN UnpackLE16(coeff[7], coeff[8])
                           ELSE UnpackSignedLE16(coeff[2 * k + 5], coeff[2 * k + 6])]]

\* the two bytes of a 16-bit coefficient as the device holds them, low byte first
LE16(v) == <<((v + 65536) % 65536) % 256, ((v + 65536) % 65536) \div 256>>

\* the 24 calibration bytes of a device whose coefficients are all zero but
\* dig_T2, dig_P1 and dig_P7
BmpCoeffBytes(t2, p1, p7) ==
    LE16(0) \o LE16(t2) \o LE16(0) \o LE16(p1) \o LE16(0) \o LE16(0) \o LE16(0)
    \o LE16(0) \o LE16(0) \o LE16(p7) \o LE16(0) \o LE16(0)

\* calibration blocks a device may hold: a sound one, and one whose dig_P1 is 0
BmpCoeffReplies == {BmpCoeffBytes(16000, 10000, -1600), BmpCoeffBytes(16000, 0, -1600)}

\* _read24: three bytes, most significant first
BmpRead24(b) == (b[1] * 256 + b[2]) * 256 + b[3]

\* the 20-bit samples the device returns in this model. The floats of the
\* compensation are kept as integers: for these samples and the calibration
\* blocks above every division of the formulas is exact
BmpTempSamples == {<<32, 0, 0>>}
BmpPressureSamples == {<<216, 240, 0>>, <<221, 210, 0>>}

\* _read_temperature from raw_temperature on: t_fine = int(var1 + var2)
BmpTFine(c, adc) ==
    LET raw_temperature == adc \div 16
        var1 == (raw_temperature \div 16384 - c.T[1] \div 1024) * c.T[2]
        var2 == ((raw_temperature \div 131072 - c.T[1] \div 8192)
                 * (raw_temperature \div 131072 - c.T[1] \div 8192)) * c.T[3]
    IN var1 + var2

\* pressure, lines 316-322: the first-stage denominator var1
BmpPressureVar1(c, t_fine) ==
    LET v == t_fine \div 2 - 64000
        var3 == (c.P[3] * v * v) \div 524288
        var1 == (var3 + c.P[2] * v) \div 524288
    IN (1 + var1 \div 32768) * c.P[1]

\* pressure, lines 317-319: var2
BmpPressureVar2(c, t_fine) ==
    LET v == t_fine \div 2 - 64000
        a == (v * v * c.P[6]) \div 32768
        b == a + v * c.P[5] * 2
    IN b \div 4 + c.P[4] * 65536

\* pressure, lines 327-332, for a var1 that is not zero: the value in hPa
BmpPressureValue(c, t_fine, adc24) ==
    LET p0 == 1048576 - adc24 \div 16
        p1 == ((p0 - BmpPressureVar2(c, t_fine) \div 4096) * 6250)
              \div BmpPressureVar1(c, t_fine)
        w1 == ((c.P[9] * p1 * p1) \div 65536) \div 32768
        w2 == (p1 * c.P[8]) \div 32768
    IN (p1 + (w1 + w2 + c.P[7]) \div 16) \div 100

\* the pressure property: [exc, value]; "if not var1: raise ArithmeticError"
BmpPressure(c, t_fine, adc24) ==
    IF BmpPressureVar1(c, t_fine) = 0 THEN [exc |-> "ArithmeticError", value |-> None]
    ELSE [exc |-> "none", value |-> BmpPressureValue(c, t_fine, adc24)]

\* a read() that assigns the temperature field before it asks for the pressure
BmpStoreTemperatureFirst(st, t_fine, p) ==
    IF p.exc # "none" THEN [st EXCEPT !["temp_c"] = t_fine \div 5120]
    ELSE [st EXCEPT !["temp_c"] = t_fine \div 5120, !["pressure_hpa"] = p.value]

\* read(), lines 295-298: both fields are assigned after the pressure property
\* has returned; p is what the property ended in
BmpReadStore(st, t_fine, p) ==
    IF p.exc # "none" THEN st
    ELSE [st EXCEPT !["temp_c"] = t_fine \div 5120, !["pressure_hpa"] = p.value]

\* status bytes: bit 3 (measuring) set while a conversion runs, bit 0
\* (im_update) may be set either way
StatusMeasuring == 8
StatusIdle == 0

\* what "while self._get_status() & 0x08" reads outside Normal mode: busy
\* bytes with bit 3 set, then one with bit 3 clear that ends the loop
BmpStatusPolls(d, busy) ==
    IF d.mode # ModeNormal
    THEN [k \in 1..(busy + 1) |-> IF k <= busy THEN StatusMeasuring ELSE StatusIdle]
    ELSE <<>>

\* a read that does not wait for the conversion
BmpReadBusNoPoll(d, busy, withPressure) ==
    (IF d.mode # ModeNormal
     THEN <<BmpWrite(RegCtrlMeas, BmpCtrlMeas([d EXCEPT !.mode = ModeForce]))>>
     ELSE <<>>)
    \o <<BmpReadReg(RegTempData, 3)>>
    \o (IF withPressure THEN <<BmpReadReg(RegPressureData, 3)>> ELSE <<>>)

\* the bus transactions of _read_temperature and pressure: outside Normal mode
\* the mode setter writes ctrl_meas with mode Force, then the status register
\* is polled (busy times with bit 3 set, once with it clear); then the
\* temperature sample is read, then the pressure sample
BmpReadBus(d, busy, withPressure) ==
    (IF d.mode # ModeNormal
     THEN <<BmpWrite(RegCtrlMeas, BmpCtrlMeas([d EXCEPT !.mode = ModeForce]))>>
          \o [k \in 1..(busy + 1) |-> BmpReadReg(RegStatus, 1)]
     ELSE <<>>)
    \o <<BmpReadReg(RegTempData, 3)>>
    \o (IF withPressure THEN <<BmpReadReg(RegPressureData, 3)>> ELSE <<>>)

\* the driver fields after _read_temperature
BmpAfterTemperature(d, tsample) ==
    [d EXCEPT !.mode = IF d.mode # ModeNormal THEN ModeForce ELSE d.mode,
              !.t_fine = IF d.calib = BmpNoCalib THEN d.t_fine
                         ELSE BmpTFine(d.calib, BmpRead24(tsample))]

\* read(), lines 294 and 296: self.pressure is evaluated after
\* _read_temperature, so the _t_fine it reads is the one just computed; the
\* property is not reached when _read_temperature has raised
BmpReadComp(d, tsample) ==
    [reached |-> d.calib # BmpNoCalib, t_fine |-> BmpAfterTemperature(d, tsample).t_fine,
     tsample |-> tsample]

\* BMP280.read() once the samples are known; p is what the pressure property
\* ends in (AttributeError when the coefficients were never loaded: the
\* attribute _temp_calib does not exist)
BmpReadDone(busy, nd, p, comp) ==
    /\ bmp' = nd
    /\ bmpBus' = BmpReadBus(bmp, busy, nd.calib # BmpNoCalib)
    /\ bmpOp' = [name |-> "read", arg |-> None]
    /\ bmpLogged' = {}
    /\ bmpExc' = p.exc
    /\ bmpPrev' = bmp
    /\ bmpPrevStore' = store
    /\ bmpPolls' = BmpStatusPolls(bmp, busy)
    /\ bmpCtrlMeasReg' = BmpCtrlMeasAfter(BmpReadBus(bmp, busy, nd.calib # BmpNoCalib), bmpCtrlMeasReg)
    /\ bmpComp' = comp
    /\ store' = BmpReadStore(store, nd.t_fine, p)
    /\ lastRead' = "bmp"
    /\ UNCHANGED <<eqVars, busVars, timerVars, aqiVars, scdVars>>

\* BMP280.read()
BmpRead(busy, tsample, psample) ==
    /\ BmpConstructed
    /\ UNCHANGED bmpLoopVars
    /\ BmpReadDone(busy, BmpAfterTemperature(bmp, tsample),
                   IF bmp.calib = BmpNoCalib THEN [exc |-> "AttributeError", value |-> None]
                   ELSE BmpPressure(bmp.calib, BmpAfterTemperature(bmp, tsample).t_fine,
                                    BmpRead24(psample)),
                   BmpReadComp(bmp, tsample))

\* a constructor that reads the calibration block before the soft reset
BmpInitBusCalibFirst(d) ==
    BmpWriteCtrlMeas(d, <<BmpReadReg(RegChipId, 1), BmpReadReg(RegDigT1, 24),
                          BmpWrite(RegSoftReset, 182)>>)

\* the bus transactions of __init__ up to _write_ctrl_meas: the chip-ID read,
\* reset() (0xB6 to SOFTRESET), _read_coefficients (24 bytes from DIG_T1),
\* _write_ctrl_meas
BmpInitBus(d) ==
    BmpWriteCtrlMeas(d, <<BmpReadReg(RegChipId, 1), BmpWrite(RegSoftReset, 182),
                          BmpReadReg(RegDigT1, 24)>>)

\* the status byte the device reports
BmpDeviceStatus(measuring) == IF measuring THEN StatusMeasuring ELSE StatusIdle

\* a loop test that looks at bit 0 (im_update) of the status byte
BmpLoopTestBit0(status) == BitAnd(status, 1) # 0

\* the loop test "self._get_status() & 0x08"
BmpLoopTest(status) == BitAnd(status, 8) # 0

\* read() outside Normal mode up to the loop: the mode setter records
\* Mode.FORCE and writes ctrl_meas, which starts a conversion in the device
BmpReadBegin ==
    /\ BmpConstructed
    /\ bmpPc = "idle"
    /\ bmp.mode # ModeNormal
    /\ bmp' = [bmp EXCEPT !.mode = ModeForce]
    /\ bmpBus' = BmpWriteCtrlMeas([bmp EXCEPT !.mode = ModeForce], <<>>)
    /\ bmpOp' = [name |-> "_read_temperature", arg |-> None]
    /\ bmpLogged' = {}
    /\ bmpExc' = "none"
    /\ bmpPrev' = bmp
    /\ bmpPrevStore' = store
    /\ bmpPolls' = <<>>
    /\ bmpCtrlMeasReg' = BmpCtrlMeas([bmp EXCEPT !.mode = ModeForce])
    /\ bmpComp' = BmpNoComp
    /\ bmpPc' = "polling"
    /\ bmpBusy' = 0
    /\ bmpMeasuring' = TRUE
    /\ UNCHANGED <<store, lastRead, eqVars, busVars, timerVars, aqiVars, scdVars>>

\* one pass of the loop that finds the loop test true: sleep(0.002), test again
BmpPollBusy ==
    /\ bmpPc = "polling"
    /\ BmpLoopTest(BmpDeviceStatus(bmpMeasuring))
    /\ bmpBusy < MaxBusy
    /\ bmpBusy' = bmpBusy + 1
    /\ bmpPolls' = Append(bmpPolls, BmpDeviceStatus(bmpMeasuring))
    /\ bmpBus' = Append(bmpBus, BmpReadReg(RegStatus, 1))
    /\ UNCHANGED <<bmp, bmpOp, bmpLogged, bmpExc, bmpPrev, bmpPrevStore, bmpPc, bmpCtrlMeasReg, bmpComp,
                   bmpMeasuring, store, lastRead, eqVars, busVars, timerVars, aqiVars, scdVars>>

\* the loop test is false: the loop ends and read() runs to its end
BmpPollDone(tsample, psample) ==
    /\ bmpPc = "polling"
    /\ ~BmpLoopTest(BmpDeviceStatus(bmpMeasuring))
    /\ bmpPc' = "idle"
    /\ bmpBusy' = 0
    /\ UNCHANGED bmpMeasuring
    /\ BmpReadDone(bmpBusy, BmpAfterTemperature(bmp, tsample),
                   IF bmp.calib = BmpNoCalib THEN [exc |-> "AttributeError", value |-> None]
                   ELSE BmpPressure(bmp.calib, BmpAfterTemperature(bmp, tsample).t_fine,
                                    BmpRead24(psample)),
                   BmpReadComp(bmp, tsample))

\* the device: the conversion is complete, status bit 3 goes back to 0
BmpConversionComplete ==
    /\ bmpMeasuring
    /\ bmpMeasuring' = FALSE
    /\ UNCHANGED <<bmpPc, bmpBusy, bmpVars, store, lastRead, eqVars, busVars, timerVars, aqiVars, scdVars>>

\* BMP280.__init__ with the chip-ID and the calibration block the device reports
BmpConstruct(chip_id, coeff) ==
    /\ ~BmpConstructed
    /\ LET d == [BmpDefaults EXCEPT !.calib = BmpReadCoefficients(coeff)]
           r == BmpWriteConfig(d, BmpInitBus(d))
       IN BmpDone("__init__", chip_id, r,
                  IF chip_id # ChipId THEN {"Failed to find BMP280!"} ELSE {})

\* mode setter
BmpSetMode(value) ==
    /\ BmpConstructed
    /\ \E exc \in BmpCheckMember(value, Mode) :
          IF exc # "none" THEN BmpRejected("mode", value, exc)
          ELSE BmpDone("mode", value, BmpModeSet(bmp, <<>>, value), {})

\* standby_period setter
BmpSetStandbyPeriod(value) ==
    /\ BmpConstructed
    /\ \E exc \in BmpCheckMember(value, Standby) :
          IF exc # "none" THEN BmpRejected("standby_period", value, exc)
          ELSE BmpDone("standby_period", value,
                       IF bmp.t_standby = value THEN [d |-> bmp, bus |-> <<>>]
                       ELSE BmpWriteConfig([bmp EXCEPT !.t_standby = value], <<>>), {})

\* iir_filter setter
BmpSetIirFilter(value) ==
    /\ BmpConstructed
    /\ \E exc \in BmpCheckMember(value, IIRFilter) :
          IF exc # "none" THEN BmpRejected("iir_filter", value, exc)
          ELSE BmpDone("iir_filter", value,
                       BmpWriteConfig([bmp EXCEPT !.iir_filter = value], <<>>), {})

\* overscan_temperature setter
BmpSetOverscanTemperature(value) ==
    /\ BmpConstructed
    /\ \E exc \in BmpCheckMember(value, Overscan) :
          IF exc # "none" THEN BmpRejected("overscan_temperature", value, exc)
          ELSE LET nd == [bmp EXCEPT !.overscan_temperature = value]
               IN BmpDone("overscan_temperature", value,
                          [d |-> nd, bus |-> BmpWriteCtrlMeas(nd, <<>>)], {})

\* overscan_pressure setter
BmpSetOverscanPressure(value) ==
    /\ BmpConstructed
    /\ \E exc \in BmpCheckMember(value, Overscan) :
          IF exc # "none" THEN BmpRejected("overscan_pressure", value, exc)
          ELSE LET nd == [bmp EXCEPT !.overscan_pressure = value]
               IN BmpDone("overscan_pressure", value,
                          [d |-> nd, bus |-> BmpWriteCtrlMeas(nd, <<>>)], {})

\* shutdown(): only the recorded mode changes
BmpShutdown ==
    /\ BmpConstructed
    /\ BmpDone("shutdown", None, [d |-> [bmp EXCEPT !.mode = ModeSleep], bus |-> <<>>], {})

\* the pressure property on the driver fields d: line 316 evaluates
\* float(self._t_fine), a TypeError while _t_fine is None; [exc, value]
BmpPressureProperty(d, adc24) ==
    IF d.t_fine = None THEN [exc |-> "TypeError", value |-> None]
    ELSE BmpPressure(d.calib, d.t_fine, adc24)

\* an accessor that has run: the fields it leaves, its bus transactions, the
\* status bytes it polled, the exception it ended in and its compensation
BmpAccessorDone(name, arg, nd, bus, polls, exc, comp) ==
    /\ bmp' = nd
    /\ bmpBus' = bus
    /\ bmpOp' = [name |-> name, arg |-> arg]
    /\ bmpLogged' = {}
    /\ bmpExc' = exc
    /\ bmpPrev' = bmp
    /\ bmpPrevStore' = store
    /\ bmpPolls' = polls
    /\ bmpCtrlMeasReg' = BmpCtrlMeasAfter(bus, bmpCtrlMeasReg)
    /\ bmpComp' = comp
    /\ UNCHANGED <<store, lastRead, bmpLoopVars, eqVars, busVars, timerVars, aqiVars, scdVars>>

\* temperature property: _read_temperature, then self._t_fine / 5120.0
BmpTemperatureGet(busy, tsample) ==
    /\ BmpConstructed
    /\ BmpAccessorDone("temperature", None, BmpAfterTemperature(bmp, tsample),
                       BmpReadBus(bmp, busy, FALSE), BmpStatusPolls(bmp, busy),
                       IF bmp.calib = BmpNoCalib THEN "AttributeError" ELSE "none",
                       BmpNoComp)

\* the compensation of a pressure property called on its own: the sample is
\* read (line 315), then _t_fine is read as it was left (line 316)
BmpAccessorComp(d) == [reached |-> TRUE, t_fine |-> d.t_fine, tsample |-> <<>>]

\* pressure property called from outside read()
BmpPressureGet(psample) ==
    /\ BmpConstructed
    /\ BmpAccessorDone("pressure", None, bmp, <<BmpReadReg(RegPressureData, 3)>>, <<>>,
                       BmpPressureProperty(bmp, BmpRead24(psample)).exc,
                       BmpAccessorComp(bmp))

\* altitude property after p = self.pressure has returned p (hPa), with the
\* reference p0 (hundredths of a hPa): p / p0 divides by zero for p0 = 0 and
\* math.pow raises ValueError for a negative base
BmpAltitudeExc(p, p0) ==
    IF p0 = 0 THEN "ZeroDivisionError"
    ELSE IF (p < 0) # (p0 < 0) /\ p # 0 THEN "ValueError"
    ELSE "none"

\* altitude property: p = self.pressure, then the barometric formula
BmpAltitudeGet(psample) ==
    /\ BmpConstructed
    /\ BmpAccessorDone("altitude", None, bmp, <<BmpReadReg(RegPressureData, 3)>>, <<>>,
                       IF BmpPressureProperty(bmp, BmpRead24(psample)).exc # "none"
                       THEN BmpPressureProperty(bmp, BmpRead24(psample)).exc
                       ELSE BmpAltitudeExc(BmpPressureProperty(bmp, BmpRead24(psample)).value,
                                           bmp.sea_level_pressure),
                       BmpAccessorComp(bmp))

\* the altitudes the setter is called with: at 0 m the divisor
\* math.pow(1.0 - value / 44330.0, 5.255) is exactly 1.0, at 44330 m it is 0.0,
\* above 44330 m its base is negative
AltitudeValues == {0, 44330, 88660}

\* altitude setter after p = self.pressure has returned p: [exc, value], value
\* the new sea_level_pressure in hundredths of a hPa
BmpSeaLevelFor(p, value) ==
    IF value > 44330 THEN [exc |-> "ValueError", value |-> None]
    ELSE IF value = 44330 THEN [exc |-> "ZeroDivisionError", value |-> None]
    ELSE [exc |-> "none", value |-> p * 100]

\* the altitude setter once self.pressure has ended in p
BmpAltitudeSetDone(value, p) ==
    LET r == IF p.exc # "none" THEN p ELSE BmpSeaLevelFor(p.value, value)
    IN BmpAccessorDone("altitude.setter", value,
                       IF r.exc # "none" THEN bmp
                       ELSE [bmp EXCEPT !.sea_level_pressure = r.value],
                       <<BmpReadReg(RegPressureData, 3)>>, <<>>, r.exc, BmpAccessorComp(bmp))

\* altitude setter: p = self.pressure, then sea_level_pressure is assigned
BmpAltitudeSet(value, psample) ==
    /\ BmpConstructed
    /\ value \in AltitudeValues
    /\ BmpAltitudeSetDone(value, BmpPressureProperty(bmp, BmpRead24(psample)))

\* the object before __init__ has assigned anything
BmpInit ==
    /\ bmp = [mode |-> None, iir_filter |-> None, overscan_temperature |-> None,
              overscan_pressure |-> None, t_standby |-> None, t_fine |-> None,
              sea_level_pressure |-> None,
              calib |-> BmpNoCalib]
    /\ bmpOp = [name |-> "new", arg |-> None]
    /\ bmpCtrlMeasReg = None
    /\ bmpComp = BmpNoComp
    /\ bmpBus = <<>>
    /\ bmpLogged = {}
    /\ bmpExc = "none"
    /\ bmpPrev = bmp
    /\ bmpPrevStore = SensorData
    /\ bmpPolls = <<>>
    /\ bmpPc = "idle"
    /\ bmpBusy = 0
    /\ bmpMeasuring = FALSE

-----------------------------------------------------------------------------
(* Scheduler (timer.py) and the callbacks main.py registers *)

Devices == {"aqi", "bmp", "scd"}

\* intervals an event may be registered with
Intervals == {2, 5}

Range(f) == {f[i] : i \in DOMAIN f}

\* what the devices return during one run(): an AQI frame and whether its bus
\* read succeeds, the BMP280 readings (whether the pressure denominator var1
\* is zero, and the compensated values), the SCD40 status and measurement
TickInputs ==
    [frame : {AQIFrame(77, 28, 7, 258, 9, 11, 0), AQIFrame(88, 28, 258, 7, 9, 11, 1)},
     ok : {TRUE},
     var1zero : BOOLEAN,
     temp : {21},
     status : {Group(128, 6, 0), Group(0, 0, 0)},
     meas : {Group(1, 190, 0) \o Group(102, 103, 0) \o Group(94, 0, 0)}]

\* BMP280.read() as the scheduler sees it: ArithmeticError when var1 is zero,
\* otherwise both fields are assigned ([exc, store])
BmpReadSummary(st, in) ==
    IF in.var1zero THEN [exc |-> "ArithmeticError", store |-> st]
    ELSE [exc |-> "none",
          store |-> [st EXCEPT !["temp_c"] = in.temp, !["pressure_hpa"] = 1000 + in.temp]]

\* SCD40.read() as the scheduler sees it: r is what read() ends in and leaves
ScdCallback(acc, r) ==
    [exc |-> r.exc,
     acc |-> [acc EXCEPT !.scdBuffer = r.buf, !.scdCache = r.cache, !.store = r.store]]

\* the bound method sensor.read of each device, run on the scheduler's state:
\* the exception it ends in and the state it leaves
Callback(cb, acc, in) ==
    CASE cb = "aqi" ->
           LET r == AQIReadResult(acc.aqiBuffer, acc.store, in.frame, in.ok)
           IN [exc |-> "none", acc |-> [acc EXCEPT !.aqiBuffer = r.buffer, !.store = r.store]]
      [] cb = "bmp" ->
           LET r == BmpReadSummary(acc.store, in)
           IN [exc |-> r.exc, acc |-> [acc EXCEPT !.store = r.store]]
      [] cb = "scd" ->
           ScdCallback(acc, ScdReadResult(acc.scdBuffer, acc.scdCache, acc.store,
                                          in.status, in.meas, in.status, in.meas))

\* a due test that also fires when exactly the interval has elapsed
EventDueInclusive(e, t) == t - e.prev >= e.interval

\* Event.update's condition: now - self._prev > self._interval
EventDue(e, t) == t - e.prev > e.interval

\* Event.update after the callback has returned: self._prev = now
EventFired(e, t) == [e EXCEPT !.prev = t]

RECURSIVE RunEvents(_, _, _, _)
\* the loop of Timer.run from event i on: e.update(self._now) for each event in
\* list order; a callback that raises ends update and run with its exception
RunEvents(i, t, acc, in) ==
    IF i > Len(acc.events) THEN acc
    ELSE IF ~EventDue(acc.events[i], t) THEN RunEvents(i + 1, t, acc, in)
    ELSE LET c == Callback(acc.events[i].cb, [acc EXCEPT !.fired = Append(@, i)], in)
         IN IF c.exc # "none" THEN [c.acc EXCEPT !.raised = i]
            ELSE RunEvents(i + 1, t, [c.acc EXCEPT !.events[i] = EventFired(@, t)], in)

\* Timer.add_event(callback, interval), as main.py calls it for each sensor
\* before the first run()
AddEvent(cb, interval) ==
    /\ timerOp # "run"
    /\ \A i \in DOMAIN events : events[i].cb # cb
    /\ \E t \in clock..MaxStart :
          /\ clock' = t
          /\ regTime' = Append(regTime, t)
    /\ events' = Append(events, [cb |-> cb, interval |-> interval, prev |-> 0])
    /\ timerOp' = "add_event"
    /\ UNCHANGED <<lastRead, bmpLoopVars, eqVars, busVars, store, now, fired, firedBefore, raised, prevAtTick, storeAtTick,
                   tickInput, aqiVars, scdVars, bmpVars>>

\* Timer.run() at clock reading t: self._now = t, then the pass over the
\* events, which leaves r
RunTick(t, in, r) ==
    /\ clock' = t
    /\ now' = t
    /\ events' = r.events
    /\ store' = r.store
    /\ fired' = r.fired
    /\ raised' = r.raised
    /\ firedBefore' = firedBefore \cup Range(fired)
    /\ prevAtTick' = [i \in DOMAIN events |-> events[i].prev]
    /\ storeAtTick' = store
    /\ tickInput' = in
    /\ timerOp' = "run"
    /\ aqiBuffer' = r.aqiBuffer
    /\ scdBuffer' = r.scdBuffer
    /\ scdCache' = r.scdCache
    /\ lastRead' = IF r.fired = <<>> THEN lastRead ELSE events[r.fired[Len(r.fired)]].cb
    /\ UNCHANGED <<bmpLoopVars, eqVars, busVars, regTime, aqiErrors, aqiResults, aqiPrevStore, aqiOp, scdOp, scdExc,
                   scdResult, scdArg, scdWrites, scdReply, scdPrevCache, scdPrevStore,
                   scdDevice, scdPrevDevice, bmpVars>>

\* Timer.run()
Run ==
    \E t \in clock..MaxTime, in \in TickInputs :
        RunTick(t, in,
                RunEvents(1, t, [events |-> events, store |-> store, fired |-> <<>>,
                                 raised |-> 0, aqiBuffer |-> aqiBuffer,
                                 scdBuffer |-> scdBuffer, scdCache |-> scdCache], in))

\* Timer(): _now is the clock reading, no events
TimerInit ==
    /\ clock \in 0..MaxStart
    /\ now = clock
    /\ events = <<>>
    /\ regTime = <<>>
    /\ fired = <<>>
    /\ firedBefore = {}
    /\ raised = 0
    /\ prevAtTick = <<>>
    /\ storeAtTick = SensorData
    /\ tickInput = CHOOSE in \in TickInputs : TRUE
    /\ timerOp = "init"

-----------------------------------------------------------------------------
(* Sensor base class (sensors.py): connection state and bus transactions *)

\* the devices on the bus
TransportDevices == {"aqi", "scd"}

\* open_connection gives up when self.retries > 5
RetryLimit == 5

\* Sensor.__init__ before open_connection: retries = 0, i2c_device = None
ConnNew ==
    [constructed |-> FALSE, retries |-> 0, connected |-> FALSE, phase |-> "idle",
     kind |-> "none", opens |-> 0, everOpened |-> FALSE]

\* an open_connection without the retries test
OpenConnectionNoLimit(c, openOk) ==
    IF openOk THEN [c |-> [c EXCEPT !.opens = @ + 1, !.everOpened = TRUE], result |-> "True"]
    ELSE [c |-> [c EXCEPT !.retries = @ + 1, !.opens = @ + 1], result |-> "False"]

\* open_connection: [c, result]; openOk says whether I2CDevice(...) finds the
\* device (it raises ValueError otherwise)
OpenConnection(c, openOk) ==
    IF c.retries > RetryLimit THEN [c |-> c, result |-> "None"]
    ELSE IF openOk
         THEN [c |-> [c EXCEPT !.opens = @ + 1, !.everOpened = TRUE], result |-> "True"]
         ELSE [c |-> [c EXCEPT !.retries = @ + 1, !.opens = @ + 1], result |-> "False"]

\* no bus transaction is between its __enter__ and its __exit__: the program
\* is single-threaded and each transport call returns before the next starts
BusIdle == \A d \in TransportDevices : conn[d].phase = "idle"

\* one transport step that is not part of a bus transaction
ConnStep(name, d, c, opened) ==
    /\ conn' = [conn EXCEPT ![d] = c]
    /\ busOp' = [name |-> name, dev |-> d, exc |-> "none", failed |-> FALSE,
                 opened |-> opened, retriesBefore |-> conn[d].retries]
    /\ UNCHANGED <<busOwner, store, lastRead, timerVars, aqiVars, scdVars, bmpVars, bmpLoopVars, eqVars>>

\* Sensor.__init__ once open_connection has returned r: self._connected = r.result
SensorConstructDone(d, r) ==
    ConnStep("__init__", d,
             [r.c EXCEPT !.constructed = TRUE, !.connected = (r.result = "True")], TRUE)

\* Sensor.__init__
SensorConstruct(d, openOk) ==
    /\ BusIdle
    /\ ~conn[d].constructed
    /\ SensorConstructDone(d, OpenConnection(ConnNew, openOk))

\* "with self.i2c_device as device": I2CDevice.__enter__ takes the bus lock
\* (it waits while the lock is held)
BusEnter(name, d, kind) ==
    /\ busOwner = "free"
    /\ busOwner' = d
    /\ conn' = [conn EXCEPT ![d].phase = "acquired", ![d].kind = kind]
    /\ busOp' = [name |-> name, dev |-> d, exc |-> "none", failed |-> FALSE,
                 opened |-> FALSE, retriesBefore |-> conn[d].retries]
    /\ UNCHANGED <<store, lastRead, timerVars, aqiVars, scdVars, bmpVars, bmpLoopVars, eqVars>>

\* a _get_i2c_raw that stores what open_connection returns in _connected
GetI2cRawOpenStored(d, r) ==
    ConnStep("_get_i2c_raw", d, [r.c EXCEPT !.connected = (r.result = "True")],
             r.result # "None")

\* _get_i2c_raw on a device that is not connected: open_connection is called
\* and its result is dropped
GetI2cRawOpenDone(d, r) == ConnStep("_get_i2c_raw", d, r.c, r.result # "None")

\* _get_i2c_raw up to the bus transfer (the driver has set self._buffer)
GetI2cRaw(d, openOk) ==
    /\ BusIdle
    /\ conn[d].constructed
    /\ IF conn[d].connected THEN BusEnter("_get_i2c_raw", d, "read")
       ELSE /\ (conn[d].opens < MaxOpens \/ conn[d].retries > RetryLimit)
            /\ GetI2cRawOpenDone(d, OpenConnection(conn[d], openOk))

\* _send_i2c_raw up to the bus transfer: nothing happens when not connected
SendI2cRaw(d) ==
    /\ BusIdle
    /\ conn[d].constructed
    /\ IF conn[d].connected THEN BusEnter("_send_i2c_raw", d, "write")
       ELSE ConnStep("_send_i2c_raw", d, conn[d], FALSE)

\* what the body of the with block can end in. A read: device.readinto
\* returns or raises OSError. A write: device.write returns or raises OSError,
\* self._send_buffer is not set by the class (AttributeError), or cmd is None
\* and device.write(None) raises TypeError
TransferOutcomes(kind) ==
    IF kind = "read" THEN {"ok", "OSError"}
    ELSE {"ok", "OSError", "AttributeError", "TypeError"}

\* the body of the with block. _get_i2c_raw catches OSError, logs it and sets
\* _connected = False; _send_i2c_raw catches nothing
BusTransfer(d, out) ==
    /\ conn[d].phase = "acquired"
    /\ out \in TransferOutcomes(conn[d].kind)
    /\ conn' = [conn EXCEPT ![d].phase = "transferred",
                            ![d].connected =
                                IF out # "ok" /\ conn[d].kind = "read" THEN FALSE ELSE @]
    /\ busOp' = [busOp EXCEPT !.failed = (out # "ok"),
                              !.exc = IF out # "ok" /\ conn[d].kind = "write"
                                      THEN out ELSE "none"]
    /\ UNCHANGED <<busOwner, store, lastRead, timerVars, aqiVars, scdVars, bmpVars, bmpLoopVars, eqVars>>

\* an __exit__ that keeps the lock when the transfer failed
ExitKeepsLockOnFailure(owner, failed) == IF failed THEN owner ELSE "free"

\* I2CDevice.__exit__: the lock is given back, on a normal and on an
\* exceptional exit of the with block
ExitReleases(owner, failed) == "free"

\* the end of the with block
BusExit(d) ==
    /\ conn[d].phase = "transferred"
    /\ busOwner' = ExitReleases(busOwner, busOp.failed)
    /\ conn' = [conn EXCEPT ![d].phase = "idle", ![d].kind = "none"]
    /\ UNCHANGED <<busOp, store, lastRead, timerVars, aqiVars, scdVars, bmpVars, bmpLoopVars, eqVars>>

\* before any Sensor is constructed
BusInit ==
    /\ conn = [d \in TransportDevices |-> ConnNew]
    /\ busOwner = "free"
    /\ busOp = [name |-> "none", dev |-> "none", exc |-> "none", failed |-> FALSE,
                opened |-> FALSE, retriesBefore |-> 0]

-----------------------------------------------------------------------------
(* Equations (equations.py) *)

(* Floating-point values are fixed-point integers here: a pressure argument  *)
(* is in tenths of a hPa, the ratio 293.0 / (293.0 - altitude * 0.0065) has  *)
(* RatioDigits decimals, and a result is in millionths of a hPa. Quotients   *)
(* are truncated, so a result is below the exact value by less than one      *)
(* unit of the ratio times the pressure.                                     *)

\* decimals kept of the ratio
RatioDigits == 5

\* 10^RatioDigits: the ratio 1.0
RatioOne == 100000

\* 293.0 and 0.0065, both multiplied by 2000 so that they are integers
SeaLevelKelvin == 586000
LapseRate == 13

RECURSIVE FixedDivStep(_, _, _, _)
\* long division: k more decimals of the quotient q with remainder r
FixedDivStep(q, r, den, k) ==
    IF k = 0 THEN q
    ELSE FixedDivStep(q * 10 + (r * 10) \div den, (r * 10) % den, den, k - 1)

\* num / den with the given number of decimals, truncated
FixedDiv(num, den, digits) == FixedDivStep(num \div den, num % den, den, digits)

\* the altitudes (m) and pressures (tenths of a hPa) the function is called with
Altitudes == {-400, 0, 21, 100, 500, 1000, 2000, 4000, 8848, 10000}
Pressures == {0, 1, 92, 100, 500, 1000, 1500, 2000, 2500, 2750, 3000}

\* a conversion that multiplies by the inverse ratio
SeaLevelPressureInverted(altitude, pressure) ==
    pressure * FixedDiv(SeaLevelKelvin - altitude * LapseRate, SeaLevelKelvin, RatioDigits)

\* return pressure * (293.0 / (293.0 - altitude * 0.0065))
SeaLevelPressure(altitude, pressure) ==
    pressure * FixedDiv(SeaLevelKelvin, SeaLevelKelvin - altitude * LapseRate, RatioDigits)

\* a call of equations.sea_level_pressure(altitude, pressure)
SeaLevelPressureCall(altitude, pressure) ==
    /\ eqOp' = "sea_level_pressure"
    /\ eqAltitude' = altitude
    /\ eqPressure' = pressure
    /\ eqResult' = SeaLevelPressure(altitude, pressure)
    /\ UNCHANGED <<store, lastRead, timerVars, aqiVars, scdVars, bmpVars, bmpLoopVars, busVars>>

EqInit ==
    /\ eqOp = "none"
    /\ eqAltitude = 0
    /\ eqPressure = 0
    /\ eqResult = 0

-----------------------------------------------------------------------------
(* Specifications *)

Init == store = SensorData /\ lastRead = "none" /\ TimerInit /\ AQIInit /\ ScdInit /\ BmpInit /\ BusInit /\ EqInit

\* the scheduler with the three sensors' read callbacks
NextTimer ==
    \/ \E cb \in Devices, interval \in Intervals : AddEvent(cb, interval)
    \/ Run

SpecTimer == Init /\ [][NextTimer]_vars

\* the particulate driver
NextAQI == \E frame \in AQIFrames, ok \in BOOLEAN : AQIRead(frame, ok)

SpecAQI == Init /\ [][NextAQI]_vars

\* the SCD40 driver
NextSCD ==
    \/ \E s1 \in StatusReplies, m1 \in MeasReplies, s2 \in AccessorStatusReplies :
          ScdRead(s1, m1, s2, m1)
    \/ \E s1 \in AccessorStatusReplies, m1 \in AccessorMeasReplies,
          s2 \in AccessorStatusReplies : ScdRead(s1, m1, s2, MeasLater)
    \/ \E name \in {"co2", "temperature", "relative_humidity"},
          s \in AccessorStatusReplies, m \in AccessorMeasReplies : ScdGet(name, s, m)
    \/ \E target \in {400}, reply \in Replies3 : ScdForceCalibration(target, reply)
    \/ \E reply \in Replies3 : ScdTemperatureOffsetGet(reply)
    \/ \E status \in StatusReplies : ScdDataReadyGet(status)
    \/ \E value \in {-1, 4, 175, 374, 375} : ScdSet("temperature_offset_set", value)
    \/ \E value \in {-1, 1013, 65535, 65536} : ScdSet("set_ambient_pressure", value)
    \/ \E value \in {500, 65535, 65536} : ScdSet("altitude_set", value)

SpecSCD == Init /\ [][NextSCD]_vars

\* the 3-byte replies of these runs: a zero word, a non-zero word, a bad CRC
StateReplies == {Group(0, 0, 0), Group(0, 239, 0), Group(0, 239, 1)}

\* the SCD40 driver's commands that start, stop or require a stopped measurement
NextSCDState ==
    \/ ScdConstruct
    \/ ScdStopPeriodicMeasurement
    \/ ScdStartPeriodicMeasurement
    \/ ScdStartLowPeriodicMeasurement
    \/ ScdReinit
    \/ ScdFactoryReset
    \/ \E reply \in StateReplies : ScdSelfTest(reply)
    \/ \E target \in {400}, reply \in StateReplies : ScdForceCalibration(target, reply)
    \/ \E reply \in StateReplies : ScdTemperatureOffsetGet(reply)

SpecSCDState == Init /\ [][NextSCDState]_vars

\* the BMP280 driver
NextBMP ==
    \/ \E chip_id \in {ChipId, 0}, coeff \in BmpCoeffReplies : BmpConstruct(chip_id, coeff)
    \/ \E busy \in 0..MaxBusy, tsample \in BmpTempSamples, psample \in BmpPressureSamples :
          BmpRead(busy, tsample, psample)
    \/ \E value \in Mode \cup {2} : BmpSetMode(value)
    \/ \E value \in {0, 5, 8} : BmpSetStandbyPeriod(value)
    \/ \E value \in {0, 4, 5} : BmpSetIirFilter(value)
    \/ \E value \in {0, 5, 6} : BmpSetOverscanTemperature(value)
    \/ \E value \in {0, 2, -1} : BmpSetOverscanPressure(value)
    \/ BmpShutdown

SpecBMP == Init /\ [][NextBMP]_vars

\* the BMP280 driver called through read() and its accessors in any order
NextBMPAccess ==
    \/ \E coeff \in BmpCoeffReplies : BmpConstruct(ChipId, coeff)
    \/ \E busy \in 0..MaxBusy, tsample \in BmpTempSamples,
          psample \in BmpPressureSamples : BmpRead(busy, tsample, psample)
    \/ \E busy \in 0..MaxBusy, tsample \in BmpTempSamples :
          BmpTemperatureGet(busy, tsample)
    \/ \E psample \in BmpPressureSamples : BmpPressureGet(psample)
    \/ \E psample \in BmpPressureSamples : BmpAltitudeGet(psample)
    \/ \E value \in AltitudeValues, psample \in BmpPressureSamples :
          BmpAltitudeSet(value, psample)
    \/ \E value \in Mode : BmpSetMode(value)

SpecBMPAccess == Init /\ [][NextBMPAccess]_vars

\* BMP280.read() with the polling loop of _read_temperature step by step, and
\* the device that ends its conversion
NextBMPLoop ==
    \/ \E chip_id \in {ChipId, 0}, coeff \in BmpCoeffReplies : BmpConstruct(chip_id, coeff)
    \/ \E value \in Mode : bmpPc = "idle" /\ BmpSetMode(value)
    \/ \E value \in {0, 5} : bmpPc = "idle" /\ BmpSetOverscanTemperature(value)
    \/ BmpReadBegin
    \/ BmpPollBusy
    \/ \E tsample \in BmpTempSamples, psample \in BmpPressureSamples :
          BmpPollDone(tsample, psample)
    \/ BmpConversionComplete
    \/ \E tsample \in BmpTempSamples, psample \in BmpPressureSamples :
          bmpPc = "idle" /\ bmp.mode = ModeNormal /\ BmpRead(0, tsample, psample)

\* the driver's thread runs on (the loop ends once its test is false), and the
\* device ends every conversion it has started
BmpLoopFairness ==
    /\ WF_vars(\E tsample \in BmpTempSamples, psample \in BmpPressureSamples :
                  BmpPollDone(tsample, psample))
    /\ WF_vars(BmpConversionComplete)

SpecBMPLoop == Init /\ [][NextBMPLoop]_vars /\ BmpLoopFairness

\* the three drivers' read() calls on the one Reading Store, in any order
NextReads ==
    \/ \E frame \in ReadsFrames, ok \in BOOLEAN : AQIRead(frame, ok)
    \/ \E coeff \in BmpCoeffReplies : BmpConstruct(ChipId, coeff)
    \/ \E tsample \in BmpTempSamples, psample \in BmpPressureSamples :
          BmpRead(0, tsample, psample)
    \/ \E s1 \in AccessorStatusReplies, m1 \in {Group(1, 190, 0) \o Group(102, 103, 0) \o Group(94, 0, 0)} :
          ScdRead(s1, m1, s1, m1)

SpecReads == Init /\ [][NextReads]_vars

\* the Sensor base class and the bus
NextBus ==
    \/ \E d \in TransportDevices, openOk \in BOOLEAN : SensorConstruct(d, openOk)
    \/ \E d \in TransportDevices, openOk \in BOOLEAN : GetI2cRaw(d, openOk)
    \/ \E d \in TransportDevices : SendI2cRaw(d)
    \/ \E d \in TransportDevices, out \in TransferOutcomes("write") : BusTransfer(d, out)
    \/ \E d \in TransportDevices : BusExit(d)

SpecBus == Init /\ [][NextBus]_vars

\* the pure functions of equations.py
NextEq ==
    \E altitude \in Altitudes, pressure \in Pressures : SeaLevelPressureCall(altitude, pressure)

SpecEq == Init /\ [][NextEq]_vars

Next == NextTimer \/ NextAQI \/ NextSCD \/ NextSCDState \/ NextBMP \/ NextBMPAccess \/ NextBMPLoop \/ NextReads \/ NextBus \/ NextEq

Spec == Init /\ [][Next]_vars

-----------------------------------------------------------------------------
(* Properties of the scheduler, checked under SpecTimer *)

\* how often event i's callback was invoked by the last run()
FireCount(i) == Cardinality({k \in DOMAIN fired : fired[k] = i})

\* event i was due when the last run() read the clock
DueAtTick(i) == now - prevAtTick[i] > events[i].interval

\* the last run() called update on event i: it walks the list until a callback raises
Reached(i) == raised = 0 \/ i <= raised

\* C1 as stated: an event with interval I registered at clock reading t0 is not
\* fired by a tick with t - t0 < I and is fired exactly once by the first tick
\* with t - t0 >= I
C1_Original ==
    timerOp = "run" =>
        \A i \in DOMAIN events :
            i \notin firedBefore =>
                /\ now - regTime[i] < events[i].interval => FireCount(i) = 0
                /\ now - regTime[i] >= events[i].interval => FireCount(i) = 1

\* what Event.update does instead of C1: an event starts with last-fire time 0
\* whatever the clock reads when it is registered; a tick with t - prev <= I
\* does not fire it, and a tick with t - prev > I whose pass calls update on it
\* fires it exactly once
C1_FiresWhenElapsedExceeds ==
    /\ timerOp = "add_event" => events[Len(events)].prev = 0
    /\ timerOp = "run" =>
          \A i \in DOMAIN events :
              /\ now - prevAtTick[i] <= events[i].interval => FireCount(i) = 0
              /\ (now - prevAtTick[i] > events[i].interval /\ Reached(i)) => FireCount(i) = 1

\* an interval-5 event never fired before is fired at t = 6
C1_Witness ==
    /\ timerOp = "run"
    /\ \E i \in DOMAIN events :
          /\ events[i].interval = 5
          /\ prevAtTick[i] = 0
          /\ now = 6
          /\ FireCount(i) = 1

\* C2: in one tick the callbacks of all the due events are invoked, in the
\* order the events were registered
C2_AllDueInRegistrationOrder ==
    timerOp = "run" =>
        /\ \A k \in 1..(Len(fired) - 1) : fired[k] < fired[k + 1]
        /\ Range(fired) = {i \in DOMAIN events : DueAtTick(i)}

\* C3: an event fires only if the tick time minus its last-fire time exceeds
\* its interval, at most once per run(), and when it fires its last-fire time
\* becomes the tick time; an event that does not fire keeps its last-fire time
C3_NoCatchUp ==
    timerOp = "run" =>
        \A i \in DOMAIN events :
            /\ FireCount(i) <= 1
            /\ FireCount(i) = 1 => DueAtTick(i) /\ events[i].prev = now
            /\ FireCount(i) = 0 => events[i].prev = prevAtTick[i]

\* C4: when one callback raises during a tick, every other event that is due
\* in that tick is still fired and the particulate fields are still updated
C4_FaultIsolation ==
    (timerOp = "run" /\ raised # 0) =>
        \A i \in DOMAIN events :
            (i # raised /\ DueAtTick(i)) =>
                /\ FireCount(i) = 1
                /\ events[i].cb = "aqi" => store["pm10"] = AQIUnpack(tickInput.frame)[1]

-----------------------------------------------------------------------------
(* Properties of the particulate driver, checked under SpecAQI *)

\* header "BM", declared length 28, checksum equal to the sum of bytes 0..29
WellFormed(buf) ==
    /\ buf[1] = 66 /\ buf[2] = 77
    /\ buf[3] = 0 /\ buf[4] = 28
    /\ buf[31] * 256 + buf[32] = SumBytes(buf, 1, 30) % 65536

\* C5: a frame that fails the header, length or checksum check leaves the
\* PM1.0, PM2.5 and PM10 fields as they were before the read
C5_InvalidFrameKeepsStore ==
    (aqiOp = "read" /\ ~WellFormed(aqiBuffer)) =>
        \A f \in {"pm10", "pm25", "pm100"} : store[f] = aqiPrevStore[f]

\* C6: a well-formed frame is decoded as twelve big-endian 16-bit fields taken
\* from bytes 4..27 in order, and the first three become PM1.0, PM2.5 and PM10
C6_WellFormedFrameDecoded ==
    (aqiOp = "read" /\ WellFormed(aqiBuffer)) =>
        /\ \A k \in 1..12 : aqiResults[k] = aqiBuffer[3 + 2 * k] * 256 + aqiBuffer[4 + 2 * k]
        /\ store["pm10"] = aqiBuffer[5] * 256 + aqiBuffer[6]
        /\ store["pm25"] = aqiBuffer[7] * 256 + aqiBuffer[8]
        /\ store["pm100"] = aqiBuffer[9] * 256 + aqiBuffer[10]

\* C6 witness: a well-formed frame with three different leading fields was read
C6_Witness ==
    /\ aqiOp = "read"
    /\ WellFormed(aqiBuffer)
    /\ store["pm10"] = 65535 /\ store["pm25"] = 258 /\ store["pm100"] = 9

-----------------------------------------------------------------------------
(* Properties of the SCD40 driver, checked under SpecSCD *)

\* the data-ready rule of the status word
StatusReady(status) == ~((status[1] % 8 = 0) /\ status[2] = 0)

\* C7: the CRC-8 of [0x00, 0x00] is 0x81; a 2-byte payload followed by its CRC
\* passes _check_buffer_crc and followed by any other byte is rejected
C7_CrcRoundTrip ==
    /\ Crc8(<<0, 0>>) = 129
    /\ scdOp = "temperature_offset" =>
          LET p == <<scdReply.status[1], scdReply.status[2]>>
          IN /\ Crc8(p) \in Byte
             /\ \A c \in Byte :
                   CheckBufferCrc(p \o <<c>>) = IF c = Crc8(p) THEN "none" ELSE "RuntimeError"
             /\ (scdExc = "none") <=> (scdReply.status[3] = Crc8(p))

\* C7 witness: the reply 0xEF 0xFF with its CRC was read and accepted
C7_Witness ==
    /\ scdOp = "temperature_offset"
    /\ scdExc = "none"
    /\ scdReply.status[1] = 239 /\ scdReply.status[2] = 255
    /\ scdBuffer[3] = scdReply.status[3]

C9_SentinelIsError ==
    (scdOp = "force_calibration" /\ ~BadCrc(scdReply.status)) =>
        IF scdReply.status[1] = 255 /\ scdReply.status[2] = 255
        THEN scdExc # "none"
        ELSE scdExc = "none"

-----------------------------------------------------------------------------
(* Properties of the BMP280 driver, checked under SpecBMP *)

\* the last operation was a config-writing setter that changed or rewrote a setting
ConfigSetterRan ==
    /\ bmpExc = "none"
    /\ \/ bmpOp.name = "standby_period" /\ bmpOp.arg # bmpPrev.t_standby
       \/ bmpOp.name = "iir_filter"

\* C10: a standby_period or iir_filter setter in Normal mode writes ctrl_meas
\* with mode Sleep, then config, then ctrl_meas with mode Normal, and leaves the
\* mode Normal; in Sleep or Forced mode it writes config once and nothing else
C10_ConfigWriteSequence ==
    ConfigSetterRan =>
        IF bmpPrev.mode = ModeNormal
        THEN /\ Len(bmpBus) = 3
             /\ \A k \in 1..3 : bmpBus[k].op = "write"
             /\ bmpBus[1].reg = RegCtrlMeas /\ bmpBus[1].val % 4 = ModeSleep
             /\ bmpBus[2].reg = RegConfig
             /\ bmpBus[3].reg = RegCtrlMeas /\ bmpBus[3].val % 4 = ModeNormal
             /\ bmp.mode = ModeNormal
        ELSE /\ Len(bmpBus) = 1
             /\ bmpBus[1].op = "write" /\ bmpBus[1].reg = RegConfig
             /\ bmp.mode = bmpPrev.mode

\* C10 witness: standby_period was changed while the driver was in Normal mode
C10_Witness ==
    /\ bmpOp.name = "standby_period"
    /\ bmpOp.arg # bmpPrev.t_standby
    /\ bmpPrev.mode = ModeNormal
    /\ Len(bmpBus) = 3

\* the register writes of the last operation that went to register reg
WritesTo(reg) == {k \in DOMAIN bmpBus : bmpBus[k].op = "write" /\ bmpBus[k].reg = reg}

\* C11: after standby_period is set to a new value v while the driver is in
\* Normal mode, the byte written to the config register carries v in bits 5-7
\* and the current IIR filter level in bits 2-4
C11_StandbyBitsWritten ==
    (/\ bmpOp.name = "standby_period"
     /\ bmpOp.arg \in Standby
     /\ bmpOp.arg # bmpPrev.t_standby
     /\ bmpPrev.mode = ModeNormal) =>
        /\ WritesTo(RegConfig) # {}
        /\ \A k \in WritesTo(RegConfig) :
              bmpBus[k].val = bmpOp.arg * 32 + bmp.iir_filter * 4

\* C12: shutdown() issues a ctrl_meas write whose low two bits are Sleep, and
\* that write is the last ctrl_meas write of the operation
C12_ShutdownWritesSleep ==
    bmpOp.name = "shutdown" =>
        /\ WritesTo(RegCtrlMeas) # {}
        /\ \A k \in WritesTo(RegCtrlMeas) :
              (\A j \in WritesTo(RegCtrlMeas) : j <= k) => bmpBus[k].val % 4 = ModeSleep

\* the enumerated set each setter tests its value against
SetterMembers ==
    [mode |-> Mode, standby_period |-> Standby, overscan_temperature |-> Overscan,
     overscan_pressure |-> Overscan, iir_filter |-> IIRFilter]

\* C13: a setter called with a value outside its enumerated set ends in an
\* error, writes nothing to the bus and leaves mode, oversampling, filter and
\* standby settings as they were
C13_InvalidSettingRejected ==
    (bmpOp.name \in DOMAIN SetterMembers /\ bmpOp.arg \notin SetterMembers[bmpOp.name]) =>
        /\ bmpExc # "none"
        /\ bmpBus = <<>>
        /\ bmp = bmpPrev

\* C13 witness: the standby_period setter was called with 8 while the driver
\* was in Normal mode
C13_Witness ==
    /\ bmpOp.name = "standby_period" /\ bmpOp.arg = 8
    /\ bmp.mode = ModeNormal
    /\ bmpExc # "none"

-----------------------------------------------------------------------------
(* Properties of the SCD40 setters, checked under SpecSCD *)

\* the arguments the claim names as out of range
OutOfRange ==
    \/ scdOp = "temperature_offset_set" /\ scdArg > 374
    \/ scdOp = "set_ambient_pressure" /\ (scdArg < 0 \/ scdArg > 65535)
    \/ scdOp = "altitude_set" /\ scdArg > 65535

\* C14: temperature_offset above 374, set_ambient_pressure outside 0..65535 and
\* altitude above 65535 end in the AttributeError of the argument check, and
\* nothing is written to the bus
C14_OutOfRangeRejected ==
    OutOfRange => (scdExc = "AttributeError" /\ scdWrites = <<>>)

\* C14 witness: each of the three setters was called with an out-of-range value
C14_Witness ==
    /\ scdOp = "set_ambient_pressure"
    /\ scdArg = -1
    /\ scdExc = "AttributeError"

\* C15: for every offset the temperature_offset setter accepts, the argument
\* int(offset * 65536 / 175) fits in 16 bits, it is the word written to the bus
\* after the command (followed by its CRC), and 175 * raw / 65536 is within one
\* raw step of the offset
C15_OffsetRoundTrip ==
    (scdOp = "temperature_offset_set" /\ scdArg <= 374) =>
        LET raw == ScdOffsetRaw(scdArg)
        IN /\ raw \in 0..65535
           /\ scdExc = "none"
           /\ scdWrites = <<Word(CmdSetTempOffset) \o Word(raw) \o <<Crc8(Word(raw))>>>>
           /\ scdArg * 65536 - 175 * raw \in 0..174

-----------------------------------------------------------------------------
(* Properties of BMP280.read(), checked under SpecBMP *)

\* C16: when the first-stage denominator var1 of the pressure compensation is
\* zero, read() ends in ArithmeticError and neither the temperature nor the
\* pressure field of the Reading Store is changed by that read
C16_ZeroDenominatorFails ==
    (/\ bmpOp.name = "read"
     /\ bmpPrev.calib # BmpNoCalib
     /\ BmpPressureVar1(bmpPrev.calib, bmp.t_fine) = 0) =>
        /\ bmpExc = "ArithmeticError"
        /\ store["temp_c"] = bmpPrevStore["temp_c"]
        /\ store["pressure_hpa"] = bmpPrevStore["pressure_hpa"]

\* C16 witness: a read with dig_P1 = 0, after the temperature was compensated
\* to 25 degrees (t_fine = 128000), ended in ArithmeticError
C16_Witness ==
    /\ bmpOp.name = "read"
    /\ bmpPrev.calib # BmpNoCalib
    /\ bmpPrev.calib.P[1] = 0
    /\ bmp.t_fine = 128000
    /\ bmpExc = "ArithmeticError"

-----------------------------------------------------------------------------
(* Properties of the Sensor base class and the bus, checked under SpecBus *)

\* device d has been constructed and none of its open attempts has succeeded
NeverOpened(d) == conn[d].constructed /\ ~conn[d].everOpened

\* C18 as stated: for a device whose open attempts always fail, the number of
\* open attempts is at most the retry budget of 5
C18_Original ==
    \A d \in TransportDevices : NeverOpened(d) => conn[d].opens <= RetryLimit

\* C18 amended: for a device whose open attempts always fail there are at most
\* 6 open attempts, the one of the constructor and 5 retries; a read made once
\* retries exceeds 5 makes no open attempt, and the device stays disconnected
C18_OpenAttemptsBounded ==
    /\ \A d \in TransportDevices :
          NeverOpened(d) =>
              /\ conn[d].opens = conn[d].retries
              /\ conn[d].opens <= RetryLimit + 1
              /\ ~conn[d].connected
    /\ (busOp.name = "_get_i2c_raw" /\ busOp.retriesBefore > RetryLimit) => ~busOp.opened

\* C18 witness: a device that never opened was read after its 6th failed attempt
C18_Witness ==
    \E d \in TransportDevices :
        /\ NeverOpened(d)
        /\ conn[d].opens = 6
        /\ busOp.name = "_get_i2c_raw" /\ busOp.dev = d
        /\ busOp.retriesBefore = 6
        /\ ~busOp.opened

\* C19: an OSError during the read of a connected device does not leave the
\* transport read, and the device is marked disconnected only once the retry
\* budget has been exceeded
C19_SingleFailureTolerated ==
    (busOp.name = "_get_i2c_raw" /\ busOp.failed) =>
        /\ busOp.exc = "none"
        /\ (~conn[busOp.dev].connected => conn[busOp.dev].retries > RetryLimit)

\* C31: once a constructed device's connected flag is false, after a failed
\* open in the constructor or a failed read, no step makes it true again, also
\* not a step in which an open attempt made from the read path succeeds
C31_ConnectedNeverRestored ==
    [][\A d \in TransportDevices :
          (conn[d].constructed /\ ~conn[d].connected) => ~conn'[d].connected]_vars

\* C31 witness: the last step was a read of a disconnected device whose open
\* attempt succeeded (retries did not grow), and the device is still marked
\* disconnected
C31_Witness ==
    /\ busOp.name = "_get_i2c_raw" /\ busOp.opened
    /\ conn[busOp.dev].retries = busOp.retriesBefore
    /\ conn[busOp.dev].everOpened
    /\ ~conn[busOp.dev].connected

\* the devices that are inside a bus transaction
InTransaction == {d \in TransportDevices : conn[d].phase # "idle"}

\* C20: a transfer happens only while the device holds the bus lock, the lock
\* is free again when the transaction has ended, also after a failed transfer,
\* and at most one transaction is in progress
C20_BusExclusive ==
    /\ \A d \in InTransaction : busOwner = d
    /\ InTransaction = {} => busOwner = "free"
    /\ Cardinality(InTransaction) <= 1

\* C20 witness: a write that failed with OSError has ended and the lock is
\* free while the other device is connected
C20_Witness ==
    /\ busOp.name = "_send_i2c_raw" /\ busOp.failed /\ busOp.exc = "OSError"
    /\ InTransaction = {}
    /\ busOwner = "free"
    /\ \E d \in TransportDevices : d # busOp.dev /\ conn[d].connected

-----------------------------------------------------------------------------
(* Properties of equations.py, checked under SpecEq *)

\* |a - b|
AbsDiff(a, b) == IF a >= b THEN a - b ELSE b - a

\* C21: sea_level_pressure(altitude, pressure) is
\* pressure * 293 / (293 - 0.0065 * altitude), up to the truncation of the
\* ratio; it returns the pressure unchanged at altitude 0; and for altitude
\* 21 m and pressure 9.2 hPa the result is within 0.01 hPa of 9.2042 hPa
C21_SeaLevelPressure ==
    eqOp = "sea_level_pressure" =>
        /\ AbsDiff(eqResult,
                   FixedDiv(eqPressure * SeaLevelKelvin,
                            SeaLevelKelvin - LapseRate * eqAltitude, RatioDigits))
              <= eqPressure
        /\ eqAltitude = 0 => eqResult = eqPressure * RatioOne
        /\ (eqAltitude = 21 /\ eqPressure = 92) => AbsDiff(eqResult, 9204200) <= 10000

\* C21 witness: the call of the unit test has returned 9.204232 hPa
C21_Witness ==
    /\ eqOp = "sea_level_pressure"
    /\ eqAltitude = 21 /\ eqPressure = 92
    /\ eqResult = 9204232

-----------------------------------------------------------------------------
(* Properties of the SCD40 measurement reads, checked under SpecSCD *)

\* C22: for every 3-byte status reply with a valid CRC, data_ready returns,
\* and it returns true if and only if NOT (the low 3 bits of the first byte
\* are 0 AND the second byte is 0)
C22_DataReadyIff ==
    (scdOp = "data_ready" /\ ~BadCrc(scdReply.status)) =>
        /\ scdExc = "none"
        /\ scdResult = 1 <=>
              ~(BitAnd(scdReply.status[1], 7) = 0 /\ scdReply.status[2] = 0)

\* C23: a CO2 / temperature / relative_humidity accessor called while the
\* device's status word says "not ready" issues no read-measurement command
\* and returns the cached value; the cache is changed only by an accessor
\* whose data_ready poll was true
C23_CachedWhenNotReady ==
    scdOp \in {"co2", "temperature", "relative_humidity"} =>
        /\ (~BadCrc(scdReply.status) /\ ~StatusReady(scdReply.status)) =>
              /\ scdExc = "none"
              /\ scdResult = scdPrevCache[scdOp]
              /\ \A i \in 1..Len(scdWrites) : scdWrites[i] # Word(CmdReadMeasurement)
              /\ scdCache = scdPrevCache
        /\ scdCache # scdPrevCache =>
              ~BadCrc(scdReply.status) /\ StatusReady(scdReply.status)

\* the CO2 and the humidity a 9-byte measurement reply carries, as _read_data
\* caches them
MeasCo2(m) == m[1] * 256 + m[2]
MeasHumidity(m) == 100 * (m[7] * 256 + m[8])

\* C30: the CO2 and humidity values one read() writes to the Reading Store
\* come from the same device measurement, whatever the device reports to the
\* two data_ready polls of read(): with a measurement ready and valid at the
\* first poll, the store holds the CO2 and humidity of one of the measurements
\* the device held during the call
C30_ReadConsistent ==
    (/\ scdOp = "read"
     /\ ~BadCrc(scdReply.status) /\ StatusReady(scdReply.status)
     /\ ~BadCrc(scdReply.meas)
     /\ ~BadCrc(scdReply.status2) /\ ~BadCrc(scdReply.meas2)) =>
        \E m \in {scdReply.meas, scdReply.meas2} :
            /\ store["co2"] = MeasCo2(m)
            /\ store["humidity"] = MeasHumidity(m)


-----------------------------------------------------------------------------
(* Properties of the BMP280 construction and read sequence, checked under SpecBMP *)

BmpWithSettings(t, p, m) ==
    [BmpDefaults EXCEPT !.overscan_temperature = t, !.overscan_pressure = p, !.mode = m]

\* byte v carries t in bits 5-7, p in bits 2-4 and m in bits 0-1
CtrlMeasFields(v, t, p, m) ==
    /\ v \in 0..255
    /\ v \div 32 = t
    /\ (v \div 4) % 8 = p
    /\ v % 4 = m

\* every enumerated (t, p, m) is encoded as (t << 5) + (p << 2) + m, a byte
\* from which t, p and m are read back
CtrlMeasDecodes ==
    \A t \in Overscan, p \in Overscan, m \in Mode :
        /\ BmpCtrlMeas(BmpWithSettings(t, p, m)) = t * 32 + p * 4 + m
        /\ CtrlMeasFields(BmpCtrlMeas(BmpWithSettings(t, p, m)), t, p, m)

\* no two enumerated (t, p, m) are encoded as the same byte
CtrlMeasInjective ==
    \A t \in Overscan, p \in Overscan, m \in Mode :
        \A t2 \in Overscan, p2 \in Overscan, m2 \in Mode :
            BmpCtrlMeas(BmpWithSettings(t2, p2, m2)) = BmpCtrlMeas(BmpWithSettings(t, p, m))
                => (t2 = t /\ p2 = p /\ m2 = m)

\* C25: for every enumerated temperature oversampling t, pressure oversampling
\* p and mode m the ctrl_meas byte is (t << 5) + (p << 2) + m, lies in 0..255,
\* carries the three values in bit fields that do not overlap, and (t, p, m)
\* is recovered uniquely from the byte; the byte a mode or oversampling
\* setter writes is that byte
C25_CtrlMeasEncoding ==
    /\ CtrlMeasDecodes
    /\ CtrlMeasInjective
    /\ (bmpOp.name \in {"mode", "overscan_temperature", "overscan_pressure"}
        /\ bmpExc = "none") =>
          /\ Len(bmpBus) = 1
          /\ bmpBus[1].op = "write" /\ bmpBus[1].reg = 244
          /\ CtrlMeasFields(bmpBus[1].val, bmp.overscan_temperature,
                            bmp.overscan_pressure, bmp.mode)

\* C25 witness: the mode setter wrote ctrl_meas = 0xAB (t = 5, p = 2, m = 3)
C25_Witness ==
    /\ bmpOp.name = "mode" /\ bmpOp.arg = 3 /\ bmpExc = "none"
    /\ bmp.overscan_temperature = 5 /\ bmp.overscan_pressure = 2
    /\ bmpBus = <<[op |-> "write", reg |-> 244, val |-> 171]>>

\* the positions of the bus sequence that hold a transaction of the given kind
\* on the given register
BusPositions(op, reg) == {i \in 1..Len(bmpBus) : bmpBus[i].op = op /\ bmpBus[i].reg = reg}

\* C26: a read() started in a mode other than Normal first writes ctrl_meas
\* with mode = Forced, then polls the status register, and reads the
\* temperature data register only after a poll has returned with bit 3 clear;
\* a read() started in Normal mode writes no ctrl_meas and polls no status
C26_ReadSequence ==
    bmpOp.name = "read" =>
        IF bmpPrev.mode # ModeNormal
        THEN /\ bmpBus[1].op = "write" /\ bmpBus[1].reg = 244
             /\ bmpBus[1].val % 4 = ModeForce
             /\ bmp.mode = ModeForce
             /\ Len(bmpPolls) >= 1
             /\ BusPositions("read", 243) = 2..(Len(bmpPolls) + 1)
             /\ \A k \in 1..(Len(bmpPolls) - 1) : BitAnd(bmpPolls[k], 8) # 0
             /\ BitAnd(bmpPolls[Len(bmpPolls)], 8) = 0
             /\ BusPositions("read", 250) = {Len(bmpPolls) + 2}
        ELSE /\ BusPositions("write", 244) = {}
             /\ BusPositions("read", 243) = {}
             /\ bmpPolls = <<>>
             /\ BusPositions("read", 250) = {1}

\* C26 witness: a read() in Sleep mode that found the device converting once
C26_Witness ==
    /\ bmpOp.name = "read"
    /\ bmpPrev.mode = ModeSleep
    /\ bmpPolls = <<8, 0>>
    /\ Len(bmpBus) = 5

\* a read() started in Normal mode has run
C26_WitnessNormal ==
    /\ bmpOp.name = "read"
    /\ bmpPrev.mode = ModeNormal
    /\ Len(bmpBus) = 2

\* C32: in every state after construction, reached through the setters, read()
\* and shutdown(), the mode the driver records equals the low two bits of the
\* byte last written to the device's ctrl_meas register
C32_ModeMirror ==
    BmpConstructed => bmp.mode = bmpCtrlMeasReg % 4

-----------------------------------------------------------------------------
(* Properties of the SCD40 measurement state, checked under SpecSCDState *)

\* the state the device was in when the k-th write of writes reached it
ScdStateAtWrite(state, writes, k) == ScdDeviceRun(state, SubSeq(writes, 1, k - 1))

\* the commands the device accepts only while it is not measuring
ScdIdleOnlyCommands == {CmdReinit, CmdFactoryReset, CmdForcedRecal, CmdSelfTest}

\* the operations that send one of them, each with its own command
ScdOwnCommand ==
    [reinit |-> CmdReinit, factory_reset |-> CmdFactoryReset,
     force_calibration |-> CmdForcedRecal, self_test |-> CmdSelfTest]

\* C34: the device is Idle after the constructor; reinit, factory_reset,
\* force_calibration and self_test each send stop-periodic-measurement and
\* then their own command, so that command reaches the device only in Idle;
\* and the device enters a periodic-measurement state only through
\* start_periodic_measurement or start_low_periodic_measurement
C34_MeasurementStateProtocol ==
    /\ scdOp = "init" => scdDevice = "Idle"
    /\ scdOp \in DOMAIN ScdOwnCommand =>
          /\ Len(scdWrites) = 2
          /\ ScdWriteCmd(scdWrites[1]) = CmdStopPeriodicMeasurement
          /\ ScdWriteCmd(scdWrites[2]) = ScdOwnCommand[scdOp]
    /\ \A k \in DOMAIN scdWrites :
          ScdWriteCmd(scdWrites[k]) \in ScdIdleOnlyCommands =>
              ScdStateAtWrite(scdPrevDevice, scdWrites, k) = "Idle"
    /\ (scdDevice # "Idle" /\ scdDevice # scdPrevDevice) =>
          scdOp \in {"start_periodic_measurement", "start_low_periodic_measurement"}

-----------------------------------------------------------------------------
(* Properties of the BMP280 accessors, checked under SpecBMPAccess *)

\* C33: whenever the pressure compensation is evaluated, through read(), the
\* pressure property or the altitude property and setter, in any order of calls
\* after construction, _t_fine is set; and in read() the _t_fine it uses is the
\* one computed from the temperature sample of that same read()
C33_FineTemperatureSet ==
    /\ bmpComp.reached => bmpComp.t_fine # None
    /\ (bmpOp.name = "read" /\ bmpComp.reached) =>
          bmpComp.t_fine = BmpTFine(bmp.calib, BmpRead24(bmpComp.tsample))

-----------------------------------------------------------------------------
(* Properties of the BMP280 polling loop, checked under SpecBMPLoop *)

\* C27: every read() started in a mode other than Normal returns, given that
\* the device ends its conversion; and the loop is left only by a poll that
\* found status bit 3 clear, so the driver polls as long as the device measures
C27_BusyWaitTerminates ==
    /\ (bmpPc = "polling") ~> (bmpPc = "idle")
    /\ [][(bmpPc = "polling" /\ bmpPc' = "idle") => ~bmpMeasuring]_vars

\* C27 witness: a read() has returned after a poll that found the device
\* measuring and one that found it idle
C27_Witness ==
    /\ bmpOp.name = "read"
    /\ bmpPc = "idle"
    /\ bmpPolls = <<8, 0>>
    /\ ~bmpMeasuring

-----------------------------------------------------------------------------
(* Properties of the Reading Store, checked under SpecTimer *)

\* the driver that writes a Reading Store field
FieldOwner(f) ==
    CASE f \in {"pm10", "pm25", "pm100"} -> "aqi"
      [] f \in {"temp_c", "pressure_hpa"} -> "bmp"
      [] OTHER -> "scd"

\* the callback of device cb has been invoked by some run()
EverFired(cb) ==
    \E i \in DOMAIN events : events[i].cb = cb /\ i \in firedBefore \cup Range(fired)

-----------------------------------------------------------------------------
(* Properties of the drivers' writes to the Reading Store, checked under SpecReads *)

\* the Reading Store before the last read() of the given driver
StoreBefore(cb) ==
    CASE cb = "aqi" -> aqiPrevStore
      [] cb = "bmp" -> bmpPrevStore
      [] OTHER -> scdPrevStore

\* C29: a read() of the particulate driver changes only the three PM fields,
\* a read() of the BMP280 only temperature and pressure, a read() of the SCD40
\* only CO2 and humidity: every field owned by another driver is as it was
\* before the read
C29_SingleWriterPerField ==
    lastRead # "none" =>
        \A f \in StoreFields :
            FieldOwner(f) # lastRead => store[f] = StoreBefore(lastRead)[f]

\* C29 witness: all three drivers have read, the particulate driver last, the
\* PM fields and the BMP280 fields hold the values the two drivers wrote
C29_Witness ==
    /\ lastRead = "aqi"
    /\ scdOp = "read"
    /\ store["pm10"] = 258 /\ aqiPrevStore["pm10"] = 7
    /\ store["temp_c"] # 0 /\ store["pressure_hpa"] # 0

====
